---- MODULE Spec2Model ----
(***************************************************************************)
(* Model of deltective's health analyzer (src/src/deltective/insights.py)  *)
(* over the TableStatistics that DeltaTableInspector.get_statistics builds *)
(* (src/src/deltective/inspector.py), specification Spec, and of the       *)
(* inspector's get_statistics, get_history, get_configuration and          *)
(* get_timeline_analysis over the DeltaTable it is given, specification    *)
(* InspectorSpec, and of the command line, the Textual application and     *)
(* the history pagers (cli.py, tui_app.py, history_viewer.py),             *)
(* specification TuiSpec.                                                  *)
(*                                                                         *)
(* Units.  File sizes are counted in MiB (the model's size_bytes field     *)
(* holds size_bytes / MiB_BYTES of the source; every size of the model is  *)
(* a whole number of MiB).  Times are counted in half days (12 hours), so  *)
(* timedelta.days is  (now - last_vacuum) \div HALF_DAYS_PER_DAY.          *)
(* Python's float comparisons on these inputs agree with the integer       *)
(* cross-multiplied forms used below (k/n*100 > 50  <=>  100k > 50n, ...). *)
(***************************************************************************)
EXTENDS Integers, Sequences, FiniteSets, TLC

VARIABLES
    stats,      \* DeltaTableAnalyzer.stats: the TableStatistics given to __init__
    heap,       \* the list objects allocated so far: heap[id] is the content of list id
    insights,   \* DeltaTableAnalyzer.insights: the id of the list it refers to
    returned,   \* the analyze() calls made so far: [ref |-> id of the list returned,
                \* at |-> clock reading, after_rules |-> content of the list once
                \* the rules had run, value |-> content of the list at the return]
    cv_rounds_up, \* how float rounding falls for stats.files when their exact
                  \* coefficient of variation equals the threshold (fixed per input)
    table,      \* DeltaTableInspector.table: what the DeltaTable hands out, as
                \* [add_actions, partition_columns, history, configuration,
                \*  writer_features]
    lists,      \* the history list objects allocated so far: lists[id] is the content
    observed,   \* what the inspector's methods have returned so far
    env,        \* what a run of the command finds: the path given, whether it
                \* exists, the history of the table, the library call that fails
    cli,        \* cli.main: where it is, the run_tui calls, what it printed, its exit code
    app,        \* DeltaInspectorApp: its tabs, the HistoryTab pager, the reads made
    viewer      \* display_history_interactive: the locals of its command loop

vars == <<stats, heap, insights, returned, cv_rounds_up, table, lists, observed,
          env, cli, app, viewer>>

(***************************************************************************)
(* Bounds of the enumerated inputs.                                        *)
(***************************************************************************)
MaxRun1 == 2        \* at most this many leading small files in a file list
MaxRun2 == 5        \* at most this many following files in a short file list
MaxCalls == 2       \* analyze() calls on one analyzer
MaxHistory == 3     \* at most this many history entries, of versions 0..MaxHistory
MaxAdds == 2        \* at most this many add-action rows
MaxText == 2        \* at most this many characters in an enumerated property value
MaxEntries == 21    \* at most this many history entries behind a pager

(***************************************************************************)
(* Program constants (insights.py 25-30 and the literals of the rules).    *)
(***************************************************************************)
SMALL_FILE_THRESHOLD_MB == 10
OPTIMAL_FILE_SIZE_MB == 128
MAX_RECOMMENDED_FILES == 1000
VACUUM_RECOMMENDATION_DAYS == 7
\* MIN_FILE_SIZE_VARIANCE = 0.5 as the fraction CV_NUM / CV_DEN
CV_NUM == 1
CV_DEN == 2
\* 1024 * 1024 bytes, in the model's size unit
MiB == 1
\* one day, in the model's time unit
HALF_DAYS_PER_DAY == 2
SECONDS_PER_HALF_DAY == 43200

None == <<>>                     \* Optional[datetime]: <<>> or <<t>>
Some(t) == <<t>>

(***************************************************************************)
(* Insight (insights.py 10-18).  description holds the numbers the source  *)
(* formats into the text, recommendation the first sentence of its text.   *)
(***************************************************************************)
Insight(severity, category, title, description, recommendation) ==
    [severity |-> severity, category |-> category, title |-> title,
     description |-> description, recommendation |-> recommendation]

\* severity_order.get(x.severity, 99)
severity_order(severity) ==
    CASE severity = "critical" -> 0
      [] severity = "warning" -> 1
      [] severity = "info" -> 2
      [] severity = "good" -> 3
      [] OTHER -> 99

(***************************************************************************)
(* sum(...) over the files, by halving the index range (integer addition   *)
(* is associative, so the order of the additions does not matter).         *)
(***************************************************************************)
RECURSIVE SumSizes(_, _, _)
SumSizes(files, lo, hi) ==
    IF lo > hi THEN 0
    ELSE IF lo = hi THEN files[lo].size_bytes
    ELSE LET mid == (lo + hi) \div 2
         IN  SumSizes(files, lo, mid) + SumSizes(files, mid + 1, hi)

RECURSIVE SumSquares(_, _, _)
SumSquares(files, lo, hi) ==
    IF lo > hi THEN 0
    ELSE IF lo = hi THEN files[lo].size_bytes * files[lo].size_bytes
    ELSE LET mid == (lo + hi) \div 2
         IN  SumSquares(files, lo, mid) + SumSquares(files, mid + 1, hi)

(***************************************************************************)
(* The rules.  Each returns the insights its source method appends to      *)
(* self.insights, in the order it appends them.                            *)
(***************************************************************************)
\* mutant: s <= self.SMALL_FILE_THRESHOLD_MB
SmallFilesInclusive(files) ==
    {i \in DOMAIN files : files[i].size_bytes <= SMALL_FILE_THRESHOLD_MB * MiB}

\* len([s for s in file_sizes_mb if s < self.SMALL_FILE_THRESHOLD_MB])
SmallFiles(files) ==
    {i \in DOMAIN files : files[i].size_bytes < SMALL_FILE_THRESHOLD_MB * MiB}

\* mutant: the mean is only looked at when the share of small files raised nothing
_analyze_file_sizes_exclusive(st) ==
    IF st.files = <<>> THEN <<>>
    ELSE
      LET n == Len(st.files)
          total == SumSizes(st.files, 1, n)
          small == Cardinality(SmallFiles(st.files))
      IN  IF small > 0 /\ small * 100 > 50 * n
          THEN << Insight("critical", "performance", "Small Files Problem Detected",
                          <<small, n, total>>,
                          "Run OPTIMIZE command to compact small files.") >>
          ELSE IF small > 0 /\ small * 100 > 20 * n
          THEN << Insight("warning", "performance", "Some Small Files Detected",
                          <<small, n, total>>,
                          "Consider running OPTIMIZE to improve performance.") >>
          ELSE IF 2 * total < OPTIMAL_FILE_SIZE_MB * MiB * n
          THEN << Insight("warning", "performance", "Suboptimal Average File Size",
                          <<total, n>>,
                          "Run OPTIMIZE to compact files to optimal size.") >>
          ELSE <<>>

_analyze_file_sizes(st) ==
    IF st.files = <<>> THEN <<>>
    ELSE
      LET n == Len(st.files)
          total == SumSizes(st.files, 1, n)          \* avg_size_mb = total / (MiB * n)
          small == Cardinality(SmallFiles(st.files))
          by_share ==
            IF small > 0                             \* pct_small = small / n * 100
            THEN IF small * 100 > 50 * n
                 THEN << Insight("critical", "performance", "Small Files Problem Detected",
                                 <<small, n, total>>,
                                 "Run OPTIMIZE command to compact small files.") >>
                 ELSE IF small * 100 > 20 * n
                 THEN << Insight("warning", "performance", "Some Small Files Detected",
                                 <<small, n, total>>,
                                 "Consider running OPTIMIZE to improve performance.") >>
                 ELSE <<>>
            ELSE <<>>
          by_mean ==
            IF 2 * total < OPTIMAL_FILE_SIZE_MB * MiB * n   \* avg_size_mb < 128 / 2
            THEN << Insight("warning", "performance", "Suboptimal Average File Size",
                            <<total, n>>,
                            "Run OPTIMIZE to compact files to optimal size.") >>
            ELSE <<>>
      IN  by_share \o by_mean

\* mutant: num_files >= MAX_RECOMMENDED_FILES
_analyze_file_count_inclusive(st) ==
    IF st.num_files >= MAX_RECOMMENDED_FILES
    THEN << Insight("warning", "performance", "High File Count",
                    <<st.num_files>>,
                    "Run OPTIMIZE to reduce file count.") >>
    ELSE <<>>

_analyze_file_count(st) ==
    IF st.num_files > MAX_RECOMMENDED_FILES
    THEN << Insight("warning", "performance", "High File Count",
                    <<st.num_files>>,
                    "Run OPTIMIZE to reduce file count.") >>
    ELSE <<>>

\* mutant: the day count rounded up instead of down
days_since_ceiling(now, last_vacuum) ==
    (now - last_vacuum[1] + HALF_DAYS_PER_DAY - 1) \div HALF_DAYS_PER_DAY

\* (datetime.now() - self.stats.last_vacuum).days: timedelta.days is the floor
days_since(now, last_vacuum) == (now - last_vacuum[1]) \div HALF_DAYS_PER_DAY

_analyze_vacuum_history(st, now) ==
    IF st.last_vacuum = None
    THEN IF st.total_versions > 10
         THEN << Insight("warning", "cost", "Table Has Never Been Vacuumed",
                         <<st.total_versions>>,
                         "Run VACUUM command to remove old data files.") >>
         ELSE <<>>
    ELSE LET days_since_vacuum == days_since(now, st.last_vacuum)
         IN  IF days_since_vacuum > VACUUM_RECOMMENDATION_DAYS * 4
             THEN << Insight("warning", "cost", "Vacuum Overdue",
                             <<days_since_vacuum>>,
                             "Run VACUUM to clean up old files.") >>
             ELSE <<>>

(***************************************************************************)
(* partition_key = str(sorted(file.partition_values.items())).             *)
(* partition_values is a dict: a sequence of <<column, value>> pairs in    *)
(* insertion order, no column twice.  Column names are compared as Python  *)
(* compares str; ColumnOrder lists the column names of the model in that   *)
(* order.                                                                  *)
(***************************************************************************)
ColumnOrder == <<"country", "department">>

StrLess(a, b) ==
    \E i, j \in DOMAIN ColumnOrder :
        ColumnOrder[i] = a /\ ColumnOrder[j] = b /\ i < j

\* tuple comparison (column, value) < (column, value); columns of one dict differ
ItemLess(x, y) == StrLess(x[1], y[1])

\* insert x into the sorted sequence s, after every item that is not greater
RECURSIVE InsertItem(_, _)
InsertItem(x, s) ==
    IF s = <<>> THEN <<x>>
    ELSE IF ItemLess(x, Head(s)) THEN <<x>> \o s
    ELSE <<Head(s)>> \o InsertItem(x, Tail(s))

RECURSIVE sorted_items(_)
sorted_items(partition_values) ==
    IF partition_values = <<>> THEN <<>>
    ELSE InsertItem(partition_values[Len(partition_values)],
                    sorted_items(SubSeq(partition_values, 1, Len(partition_values) - 1)))

\* repr of a str, and str of a list of 2-tuples of str
repr(x) == "'" \o x \o "'"

RECURSIVE str_items(_)
str_items(items) ==
    IF items = <<>> THEN ""
    ELSE "(" \o repr(items[1][1]) \o ", " \o repr(items[1][2]) \o ")"
         \o (IF Len(items) > 1 THEN ", " ELSE "") \o str_items(Tail(items))

\* mutant: the items are not sorted, the key follows the dict's insertion order
partition_key_unsorted(file) == "[" \o str_items(file.partition_values) \o "]"

partition_key(file) == "[" \o str_items(sorted_items(file.partition_values)) \o "]"

\* the keys of partition_counts (only their number is read)
partition_counts(files) == {partition_key(files[i]) : i \in DOMAIN files}

_analyze_partitioning(st) ==
    IF st.partition_columns = <<>>
    THEN IF st.total_size_bytes > 1024 * 10 * MiB        \* > 10GB
         THEN << Insight("info", "performance", "Table Not Partitioned",
                         <<st.total_size_bytes>>,
                         "Consider partitioning by frequently filtered columns") >>
         ELSE <<>>
    ELSE IF st.files # <<>>
         THEN LET num_partitions == Cardinality(partition_counts(st.files))
                  \* avg_files_per_partition = num_files / num_partitions
              IN  IF num_partitions > 1000 /\ st.num_files < 5 * num_partitions
                  THEN << Insight("warning", "performance", "Over-Partitioned Table",
                                  <<num_partitions, st.num_files>>,
                                  "Consider coarser partitioning strategy") >>
                  ELSE IF num_partitions < 10 /\ st.num_files > 100 * num_partitions
                  THEN << Insight("info", "performance", "Under-Partitioned Table",
                                  <<num_partitions, st.num_files>>,
                                  "Consider finer-grained partitioning") >>
                  ELSE <<>>
         ELSE <<>>

\* mutant: total_versions >= 20
_analyze_optimization_history_inclusive(st) ==
    IF st.total_versions >= 20 /\ st.num_files > MAX_RECOMMENDED_FILES
    THEN << Insight("info", "maintenance", "Consider Regular Optimization",
                    <<st.total_versions, st.num_files>>,
                    "Set up periodic OPTIMIZE jobs (weekly or after major writes).") >>
    ELSE <<>>

\* mutant: the file count test of line 236 is left out
_analyze_optimization_history_any_count(st) ==
    IF st.total_versions > 20
    THEN << Insight("info", "maintenance", "Consider Regular Optimization",
                    <<st.total_versions, st.num_files>>,
                    "Set up periodic OPTIMIZE jobs (weekly or after major writes).") >>
    ELSE <<>>

_analyze_optimization_history(st) ==
    IF st.total_versions > 20 /\ st.num_files > MAX_RECOMMENDED_FILES
    THEN << Insight("info", "maintenance", "Consider Regular Optimization",
                    <<st.total_versions, st.num_files>>,
                    "Set up periodic OPTIMIZE jobs (weekly or after major writes).") >>
    ELSE <<>>

FileSizes(files) == {files[i].size_bytes : i \in DOMAIN files}
Min(S) == CHOOSE x \in S : \A y \in S : x <= y
Max(S) == CHOOSE x \in S : \A y \in S : x >= y

(***************************************************************************)
(* coef_variation = sqrt(sum((s - mean)^2) / n) / mean  if mean > 0 else 0 *)
(* With S = sum(s), Q = sum(s^2):  variance = (n*Q - S^2) / n^2  and, in   *)
(* exact arithmetic,  coef_variation > CV_NUM/CV_DEN  <=>                  *)
(*     CV_DEN^2 * (n*Q - S^2) > CV_NUM^2 * S^2.                            *)
(* The source computes in binary floating point.  On the sizes of the      *)
(* model the rounding error is far below the gap between the two sides     *)
(* whenever they differ; when they are equal the rounding error alone      *)
(* decides the comparison (sizes 0,64,64,64,64 MiB give 0.5000000000000001,*)
(* sizes 1,3 give 0.5), which rounds_up stands for.                        *)
(***************************************************************************)
skew_excess(files) ==
    LET n == Len(files)
        S == SumSizes(files, 1, n)
        Q == SumSquares(files, 1, n)
    IN  CV_DEN * CV_DEN * (n * Q - S * S) - CV_NUM * CV_NUM * S * S

\* the exact coefficient of variation equals the threshold
skew_tie(files) ==
    /\ Len(files) >= 2
    /\ SumSizes(files, 1, Len(files)) > 0
    /\ skew_excess(files) = 0

\* the outcomes of the comparison of line 261 when the exact coefficient of
\* variation equals the threshold.  Lines 256-259 evaluated in IEEE-754 double
\* precision on the byte sizes of one empty file followed by four files of
\* a MiB give 0.5000000000000001 for a = 64 and 0.5 for a = 10 and a = 200;
\* any other tie is left open.
cv_tie_outcomes(files) ==
    IF /\ Len(files) = 5
       /\ files[1].size_bytes = 0
       /\ \A i \in 2..5 : files[i].size_bytes = files[2].size_bytes
    THEN IF files[2].size_bytes = 64 * MiB THEN {TRUE}
         ELSE IF files[2].size_bytes \in {10 * MiB, 200 * MiB} THEN {FALSE}
         ELSE BOOLEAN
    ELSE BOOLEAN

_analyze_data_skew(st, rounds_up) ==
    IF Len(st.files) < 2 THEN <<>>
    ELSE
      LET n == Len(st.files)
          S == SumSizes(st.files, 1, n)
      IN  IF S > 0 /\ \E e \in {skew_excess(st.files)} : e > 0 \/ (e = 0 /\ rounds_up)
          THEN << Insight("warning", "performance", "Data Skew Detected",
                          <<n, S, SumSquares(st.files, 1, n),
                            Min(FileSizes(st.files)), Max(FileSizes(st.files))>>,
                          "Run OPTIMIZE to balance file sizes.") >>
          ELSE <<>>

\* mutant: files_per_version <= 5
_analyze_write_patterns_inclusive(st) ==
    IF st.total_versions > 1
    THEN IF (st.num_files \div st.total_versions) <= 5 /\ st.total_versions > 10
         THEN << Insight("info", "performance", "Many Small Writes Detected",
                         <<st.total_versions, st.num_files>>,
                         "Batch writes together when possible.") >>
         ELSE <<>>
    ELSE <<>>

_analyze_write_patterns(st) ==
    IF st.total_versions > 1
    THEN \* files_per_version = num_files / total_versions; the quotient is
         \* below the whole number 5 exactly when its floor is
         IF (st.num_files \div st.total_versions) < 5 /\ st.total_versions > 10
         THEN << Insight("info", "performance", "Many Small Writes Detected",
                         <<st.total_versions, st.num_files>>,
                         "Batch writes together when possible.") >>
         ELSE <<>>
    ELSE <<>>

(***************************************************************************)
(* analyze(), insights.py 37-65.                                           *)
(***************************************************************************)
\* lines 41-47: the rules in evaluation order
rule_insights(st, now, rounds_up) ==
    _analyze_file_sizes(st)
    \o _analyze_file_count(st)
    \o _analyze_vacuum_history(st, now)
    \o _analyze_partitioning(st)
    \o _analyze_optimization_history(st)
    \o _analyze_data_skew(st, rounds_up)
    \o _analyze_write_patterns(st)

GoodInsight ==
    Insight("good", "performance", "Table Configuration Looks Good", <<>>,
            "Continue monitoring the table as data grows.")

\* mutant: the fallback is appended whatever the rules found
with_fallback_always(list) == Append(list, GoodInsight)

\* lines 49-59
with_fallback(list) ==
    IF ~ \E i \in DOMAIN list : list[i].severity \in {"critical", "warning"}
    THEN Append(list, GoodInsight)
    ELSE list

\* list.sort(key=...) is stable: an item goes after every item whose key is not greater
\* mutant: an item goes before the items of equal key (an unstable sort)
RECURSIVE InsertByKeyUnstable(_, _)
InsertByKeyUnstable(x, s) ==
    IF s = <<>> THEN <<x>>
    ELSE IF severity_order(x.severity) <= severity_order(Head(s).severity) THEN <<x>> \o s
    ELSE <<Head(s)>> \o InsertByKeyUnstable(x, Tail(s))

RECURSIVE InsertByKey(_, _)
InsertByKey(x, s) ==
    IF s = <<>> THEN <<x>>
    ELSE IF severity_order(x.severity) < severity_order(Head(s).severity) THEN <<x>> \o s
    ELSE <<Head(s)>> \o InsertByKey(x, Tail(s))

\* mutant: the sort is left out
sort_by_severity_omitted(list) == list

\* lines 62-63
RECURSIVE sort_by_severity(_)
sort_by_severity(list) ==
    IF list = <<>> THEN <<>>
    ELSE InsertByKey(list[Len(list)], sort_by_severity(SubSeq(list, 1, Len(list) - 1)))

\* mutant: self.insights is not reset, the rules append to the previous list
reset_insights_omitted(h, ref) == [heap |-> h, ref |-> ref]

\* line 39, self.insights = []: a new list object; the old one is left as it is
reset_insights(h, ref) ==
    [heap |-> Append(h, <<>>), ref |-> Len(h) + 1]

\* the heap and self.insights after analyze() run at clock reading now;
\* after_rules is the content of the list once the rules have run (line 47)
analyze(h, ref, st, now, rounds_up) ==
    LET r == reset_insights(h, ref)
    IN  \* the LET below is evaluated once for the three fields
        LET after_rules == r.heap[r.ref] \o rule_insights(st, now, rounds_up)
        IN  [heap |-> [r.heap EXCEPT ![r.ref] = sort_by_severity(with_fallback(after_rules))],
             ref |-> r.ref,
             after_rules |-> after_rules]

(***************************************************************************)
(* The TableStatistics of the model: what get_statistics returns for the   *)
(* enumerated tables (inspector.py 179-200 and 251-275).                   *)
(***************************************************************************)
FileInfo(path, size_bytes, partition_values) ==
    [path |-> path, size_bytes |-> size_bytes, partition_values |-> partition_values]

TableStatistics(files, partition_columns, total_versions, last_vacuum) ==
    [files |-> files,
     num_files |-> Len(files),
     total_size_bytes |-> SumSizes(files, 1, Len(files)),
     partition_columns |-> partition_columns,
     total_versions |-> total_versions,
     last_vacuum |-> last_vacuum]

\* Partition layouts of the enumerated tables: the partition values of file i.
Unpartitioned == [columns |-> <<>>, kind |-> "none", m |-> 1]
SamePartition == [columns |-> <<"country">>, kind |-> "mod", m |-> 1]
ModPartition(m) == [columns |-> <<"country">>, kind |-> "mod", m |-> m]
DistinctPartition == [columns |-> <<"country">>, kind |-> "distinct", m |-> 1]
\* every file in one partition, the dict filled in either order
PermutedPartition == [columns |-> <<"country", "department">>, kind |-> "permuted", m |-> 1]
\* the partition value of every second file is null (left out of the dict)
PartialPartition == [columns |-> <<"country">>, kind |-> "partial", m |-> 1]

PartitionValuesOf(layout, i) ==
    CASE layout.kind = "none" -> <<>>
      [] layout.kind = "mod" -> << <<"country", ToString(i % layout.m)>> >>
      [] layout.kind = "distinct" -> << <<"country", ToString(i)>> >>
      [] layout.kind = "permuted" ->
            IF i % 2 = 1 THEN << <<"country", "US">>, <<"department", "Sales">> >>
                         ELSE << <<"department", "Sales">>, <<"country", "US">> >>
      [] layout.kind = "partial" ->
            IF i % 2 = 1 THEN <<>> ELSE << <<"country", "US">> >>

\* c1 files of size s1 followed by c2 files of size s2
FilesOf(c1, s1, c2, s2, layout) ==
    [i \in 1..(c1 + c2) |->
        FileInfo(i, IF i <= c1 THEN s1 ELSE s2, PartitionValuesOf(layout, i))]

SmallSizes == {0, 9}
LargeSizes == {10, 64, 200}
ShortLayouts == {Unpartitioned, PermutedPartition, PartialPartition}
\* long file lists: <<least number of leading files, their size,
\*                    number of following files, their size, partition layout>>
BulkShapes ==
    { <<0, 9, 100, 128, Unpartitioned>>, <<0, 9, 100, 128, SamePartition>>,
      <<0, 9, 100, 128, PermutedPartition>>,
      <<60, 9, 60, 200, Unpartitioned>>, <<60, 9, 60, 200, SamePartition>>,
      <<0, 9, 1000, 8, Unpartitioned>>, <<0, 9, 1000, 8, DistinctPartition>>,
      <<0, 9, 1000, 8, ModPartition(9)>>, <<0, 9, 1000, 8, ModPartition(10)>>,
      <<0, 9, 1500, 8, Unpartitioned>>, <<0, 9, 1500, 8, ModPartition(3)>> }
\* more than 1000 partitions with about 5 files each
WideShapes == { <<0, 9, 5004, 4, ModPartition(1001)>> }

\* <<files, partition_columns>> of the enumerated tables
ShortTables ==
    {<<FilesOf(c1, s1, c2, s2, layout), layout.columns>> :
        c1 \in 0..MaxRun1, s1 \in SmallSizes, c2 \in 0..MaxRun2, s2 \in LargeSizes,
        layout \in ShortLayouts}
BulkTables ==
    {<<FilesOf(b[1] + c1, b[2], b[3], b[4], b[5]), b[5].columns>> :
        c1 \in 0..MaxRun1, b \in BulkShapes}
WideTables ==
    {<<FilesOf(b[1] + c1, b[2], b[3], b[4], b[5]), b[5].columns>> :
        c1 \in 0..MaxRun1, b \in WideShapes}

TotalVersionsChoices == {0, 1, 10, 11, 21}
LastVacuumChoices == {None, Some(0), Some(1), Some(60)}
Times == {57, 58}                      \* the readings of datetime.now()


\* <<total_versions, last_vacuum>> of the long file lists
BulkHistories == { <<11, None>>, <<20, None>>, <<21, None>>, <<21, Some(0)>> }

\* TableStatistics with every field but the history-derived ones filled in
WithHistory(st, total_versions, last_vacuum) ==
    [st EXCEPT !.total_versions = total_versions, !.last_vacuum = last_vacuum]

\* <<total_versions, last_vacuum>>: a VACUUM entry is itself a history entry
ShortHistories ==
    {h \in TotalVersionsChoices \X LastVacuumChoices : h[2] = None \/ h[1] >= 1}

StatsInputs ==
    {WithHistory(st, h[1], h[2]) :
        st \in {TableStatistics(t[1], t[2], 0, None) : t \in ShortTables},
        h \in ShortHistories}
    \cup
    {WithHistory(st, h[1], h[2]) :
        st \in {TableStatistics(t[1], t[2], 0, None) : t \in BulkTables},
        h \in BulkHistories}
    \cup
    {TableStatistics(t[1], t[2], 21, None) : t \in WideTables}

(***************************************************************************)
(* DeltaTableInspector, inspector.py.  The DeltaTable of the deltalake      *)
(* library is the inspector's environment: get_add_actions() hands out one  *)
(* row per active file, history() the commit entries newest first           *)
(* (tests/test_inspector.py 69-70), metadata().configuration the table      *)
(* properties.  History timestamps are counted in half days like the clock  *)
(* (the model's timestamp holds timestamp_ms / 43 200 000), so              *)
(* datetime.fromtimestamp(timestamp / 1000) is the same count of half days. *)
(***************************************************************************)
\* the inspector of the analyzer's state machine has no table to look at
NoTable == [add_actions |-> <<>>, partition_columns |-> <<>>,
            history |-> <<>>, configuration |-> <<>>, writer_features |-> None]

\* nothing returned yet by get_statistics, get_history(reverse=False),
\* get_history(reverse=True), get_configuration, get_timeline_analysis; handed
\* is the list history() handed out last
NothingObserved ==
    [statistics |-> None, newest_first |-> None, oldest_first |-> None,
     handed |-> None, configuration |-> None, timeline |-> None]

\* line 180, `... or 0`: a null size counts as 0
or_zero(size) == IF size = None THEN 0 ELSE size[1]

\* lines 184-190: the non-null partition.* columns of row i, as strings
RECURSIVE partition_values_of(_)
partition_values_of(columns) ==
    IF columns = <<>> THEN <<>>
    ELSE LET key == columns[1][1]
             partition_val == columns[1][2]
             rest == partition_values_of(Tail(columns))
         IN  IF partition_val # None
             THEN << <<key, ToString(partition_val[1])>> >> \o rest
             ELSE rest

\* mutant: total_size adds up the sizes of the rows before the last one only
RECURSIVE scan_add_actions_short(_, _, _, _)
scan_add_actions_short(add_actions, i, total_size, files_info) ==
    IF i > Len(add_actions)
    THEN [total_size |-> total_size, files_info |-> files_info]
    ELSE LET size == or_zero(add_actions[i].size_bytes)
         IN  scan_add_actions_short(
                 add_actions, i + 1,
                 IF i < Len(add_actions) THEN total_size + size ELSE total_size,
                 Append(files_info,
                        FileInfo(add_actions[i].path, size,
                                 partition_values_of(add_actions[i].partition))))

\* lines 179-200: the loop over the rows, from row i on
RECURSIVE scan_add_actions(_, _, _, _)
scan_add_actions(add_actions, i, total_size, files_info) ==
    IF i > Len(add_actions)
    THEN [total_size |-> total_size, files_info |-> files_info]
    ELSE LET size == or_zero(add_actions[i].size_bytes)
         IN  scan_add_actions(
                 add_actions, i + 1, total_size + size,
                 Append(files_info,
                        FileInfo(add_actions[i].path, size,
                                 partition_values_of(add_actions[i].partition))))

\* mutant: the summary of the last entry of the list
last_operation_of_oldest(history) ==
    IF history # <<>>
    THEN Some([operation |-> history[Len(history)].operation,
               timestamp |-> history[Len(history)].timestamp,
               parameters |-> history[Len(history)].operationParameters,
               metrics |-> history[Len(history)].operationMetrics])
    ELSE None

\* lines 229-237: the summary of history[0]
last_operation_of(history) ==
    IF history # <<>>
    THEN Some([operation |-> history[1].operation,
               timestamp |-> history[1].timestamp,
               parameters |-> history[1].operationParameters,
               metrics |-> history[1].operationMetrics])
    ELSE None

\* mutant: the search does not stop at the first VACUUM entry
RECURSIVE last_vacuum_of_no_break(_)
last_vacuum_of_no_break(history) ==
    IF history = <<>> THEN None
    ELSE LET later == last_vacuum_of_no_break(Tail(history))
         IN  IF later # None THEN later
             ELSE IF history[1].operation = "VACUUM" THEN Some(history[1].timestamp)
             ELSE None

\* lines 240-244: the timestamp of the first entry whose operation is VACUUM
RECURSIVE last_vacuum_of(_)
last_vacuum_of(history) ==
    IF history = <<>> THEN None
    ELSE IF history[1].operation = "VACUUM" THEN Some(history[1].timestamp)
    ELSE last_vacuum_of(Tail(history))

\* mutant: the version of the first entry
oldest_version_of_first(history) ==
    IF history # <<>> THEN history[1].version ELSE 0

\* lines 247-249: min(entry.get("version", 0) for entry in history), 0 if empty
oldest_version_of(history) ==
    IF history # <<>>
    THEN Min({history[i].version : i \in DOMAIN history})
    ELSE 0

\* mutant: num_files counts the rows that report a size
get_statistics_sized_rows(t) ==
    LET scanned == scan_add_actions(t.add_actions, 1, 0, <<>>)
    IN  [files |-> scanned.files_info,
         num_files |-> Cardinality({i \in DOMAIN t.add_actions :
                                       t.add_actions[i].size_bytes # None}),
         total_size_bytes |-> scanned.total_size,
         partition_columns |-> t.partition_columns,
         total_versions |-> Len(t.history),
         oldest_version |-> oldest_version_of(t.history),
         last_operation |-> last_operation_of(t.history),
         last_vacuum |-> last_vacuum_of(t.history)]

\* get_statistics, lines 158-275, on the rows and the history the table hands out
get_statistics(t) ==
    LET scanned == scan_add_actions(t.add_actions, 1, 0, <<>>)
    IN  [files |-> scanned.files_info,
         num_files |-> Len(scanned.files_info),
         total_size_bytes |-> scanned.total_size,
         partition_columns |-> t.partition_columns,
         total_versions |-> Len(t.history),
         oldest_version |-> oldest_version_of(t.history),
         last_operation |-> last_operation_of(t.history),
         last_vacuum |-> last_vacuum_of(t.history)]

\* list(reversed(history)), line 302
RECURSIVE reversed(_)
reversed(list) ==
    IF list = <<>> THEN <<>> ELSE Append(reversed(Tail(list)), list[1])

\* mutant: history.reverse(); return history
get_history_in_place(h, history, reverse) ==
    IF reverse
    THEN [lists |-> [h EXCEPT ![history] = reversed(h[history])], ref |-> history]
    ELSE [lists |-> h, ref |-> history]

\* get_history, lines 300-303, given the list object history() handed out:
\* the list objects afterwards and the one returned
get_history(h, history, reverse) ==
    IF reverse
    THEN [lists |-> Append(h, reversed(h[history])), ref |-> Len(h) + 1]
    ELSE [lists |-> h, ref |-> history]

(***************************************************************************)
(* get_configuration and _detect_advanced_features, inspector.py 305-411.  *)
(* The table properties are a dict from str to str, here a sequence of     *)
(* <<key, value>> pairs with distinct keys.  The values of the two numeric *)
(* properties are sequences of characters, so that int(), str.replace and  *)
(* str.strip work on them as they do on a str; the other values are        *)
(* strings.  A raised exception is the result [raised |-> its name].       *)
(***************************************************************************)
Digits == <<"0", "1", "2", "3", "4", "5", "6", "7", "8", "9">>
DigitValue(c) == (CHOOSE d \in DOMAIN Digits : Digits[d] = c) - 1
IsDigit(c) == \E d \in DOMAIN Digits : Digits[d] = c

\* str.strip(): blanks off both ends
RECURSIVE lstrip(_)
lstrip(chars) ==
    IF chars # <<>> /\ chars[1] = " " THEN lstrip(Tail(chars)) ELSE chars
RECURSIVE rstrip(_)
rstrip(chars) ==
    IF chars # <<>> /\ chars[Len(chars)] = " "
    THEN rstrip(SubSeq(chars, 1, Len(chars) - 1))
    ELSE chars
strip(chars) == rstrip(lstrip(chars))

\* str.replace("hours", ""): every occurrence taken out, left to right
RECURSIVE replace_hours(_)
replace_hours(chars) ==
    IF Len(chars) >= 5 /\ SubSeq(chars, 1, 5) = <<"h", "o", "u", "r", "s">>
    THEN replace_hours(SubSeq(chars, 6, Len(chars)))
    ELSE IF chars = <<>> THEN <<>>
    ELSE <<chars[1]>> \o replace_hours(Tail(chars))

\* the value of a run of digits and underscores, underscores skipped
RECURSIVE digits_value(_)
digits_value(chars) ==
    IF chars = <<>> THEN 0
    ELSE LET last == chars[Len(chars)]
             front == digits_value(SubSeq(chars, 1, Len(chars) - 1))
         IN  IF last = "_" THEN front ELSE 10 * front + DigitValue(last)

\* int(str): blanks off both ends, an optional sign, then digits, single
\* underscores allowed between digits; anything else raises ValueError
int(chars) ==
    LET stripped == strip(chars)
        signed == stripped # <<>> /\ stripped[1] \in {"+", "-"}
        body == IF signed THEN Tail(stripped) ELSE stripped
        well_formed ==
            /\ body # <<>>
            /\ \A i \in DOMAIN body : IsDigit(body[i]) \/ body[i] = "_"
            /\ IsDigit(body[1]) /\ IsDigit(body[Len(body)])
            /\ \A i \in 1..(Len(body) - 1) : ~(body[i] = "_" /\ body[i + 1] = "_")
    IN  IF well_formed
        THEN [raised |-> "", value |-> IF signed /\ stripped[1] = "-"
                                       THEN 0 - digits_value(body)
                                       ELSE digits_value(body)]
        ELSE [raised |-> "ValueError", value |-> 0]

\* config.get(key, default)
config_get(config, key, default) ==
    IF \E i \in DOMAIN config : config[i][1] = key
    THEN config[CHOOSE i \in DOMAIN config : config[i][1] = key][2]
    ELSE default

\* the keys of the model that start with "delta.constraints."
ConstraintKeys == {"delta.constraints.positive_id"}

\* the features of lines 369-409 once both numbers are parsed
features_of(config, writer_features, num_indexed_cols, vacuum_retention_hours) ==
    LET written == IF writer_features = None THEN {} ELSE writer_features[1]
        is_constraint(item) == item[1] \in ConstraintKeys
        auto_compact == config_get(config, "delta.autoOptimize.autoCompact", "false") = "true"
        optimize_write == config_get(config, "delta.autoOptimize.optimizeWrite", "false") = "true"
        mode == config_get(config, "delta.columnMapping.mode", "none")
    IN  [deletion_vectors |-> "deletionVectors" \in written,
         column_mapping |-> [enabled |-> mode # "none", mode |-> mode],
         liquid_clustering |-> \E i \in DOMAIN config : config[i][1] = "clustering",
         timestamp_ntz |-> "timestampNtz" \in written,
         check_constraints |-> SelectSeq(config, is_constraint),
         auto_optimize |-> [enabled |-> auto_compact \/ optimize_write,
                            auto_compact |-> auto_compact,
                            optimize_write |-> optimize_write],
         data_skipping |-> [enabled |-> TRUE, num_indexed_cols |-> num_indexed_cols],
         change_data_feed |-> config_get(config, "delta.enableChangeDataFeed", "false") = "true",
         vacuum_retention_hours |-> vacuum_retention_hours]

\* _detect_advanced_features, lines 367-411: int() of line 401, then
\* int(....replace("hours", "").strip()) of line 408; either may raise
_detect_advanced_features(config, writer_features) ==
    LET num_indexed_cols ==
            int(config_get(config, "delta.dataSkippingNumIndexedCols", <<"3", "2">>))
        vacuum_retention_hours ==
            int(strip(replace_hours(
                config_get(config, "delta.deletedFileRetentionDuration",
                           <<"1", "6", "8">>))))
    IN  IF num_indexed_cols.raised # "" THEN [raised |-> num_indexed_cols.raised]
        ELSE IF vacuum_retention_hours.raised # ""
        THEN [raised |-> vacuum_retention_hours.raised]
        ELSE [raised |-> "",
              features |-> features_of(config, writer_features, num_indexed_cols.value,
                                       vacuum_retention_hours.value)]

\* get_configuration, lines 305-365, without the listing of the _delta_log
\* directory (checkpoint_info, transaction_log), which reads no table property
get_configuration(t) ==
    LET advanced_features == _detect_advanced_features(t.configuration, t.writer_features)
    IN  IF advanced_features.raised # "" THEN [raised |-> advanced_features.raised]
        ELSE [raised |-> "",
              table_properties |-> t.configuration,
              partition_columns |-> t.partition_columns,
              writer_features |-> IF t.writer_features = None THEN {}
                                  ELSE t.writer_features[1],
              advanced_features |-> advanced_features.features]

(***************************************************************************)
(* get_timeline_analysis and _analyze_write_patterns, inspector.py 413-498.*)
(* version_creation_rate, a quotient of two whole numbers, is kept as      *)
(* [num, den].  Averages are compared with their thresholds by cross       *)
(* multiplication; time differences are in half days of                    *)
(* SECONDS_PER_HALF_DAY seconds.                                           *)
(***************************************************************************)
\* lines 431-434: how many entries each operation has
operations_by_type_of(history) ==
    [op \in {history[i].operation : i \in DOMAIN history} |->
        Cardinality({i \in DOMAIN history : history[i].operation = op})]

\* line 440, strftime("%Y-%m-%d"): the calendar day of a timestamp
day_key(timestamp) == timestamp \div HALF_DAYS_PER_DAY

\* lines 437-443: the entries of each day, in the order of the history
operations_by_day_of(history) ==
    [day \in {day_key(history[i].timestamp) : i \in DOMAIN history} |->
        LET that_day(entry) == day_key(entry.timestamp) = day
        IN  SelectSeq(history, that_day)]

\* mutant: the days between the first and the last commit rounded up
days_elapsed_of_ceiling(history) ==
    LET stamps == {history[i].timestamp : i \in DOMAIN history}
        days == (Max(stamps) - Min(stamps) + HALF_DAYS_PER_DAY - 1) \div HALF_DAYS_PER_DAY
    IN  Max({1, IF days # 0 THEN days ELSE 1})

\* lines 447-453: max(1, (last_time - first_time).days or 1)
days_elapsed_of(history) ==
    LET stamps == {history[i].timestamp : i \in DOMAIN history}
        days == (Max(stamps) - Min(stamps)) \div HALF_DAYS_PER_DAY
    IN  Max({1, IF days # 0 THEN days ELSE 1})

WriteOperations == {"WRITE", "MERGE", "UPDATE", "DELETE"}

\* h.get("operationMetrics", {}).get("num_added_rows", 0)
num_added_rows_of(entry) ==
    IF entry.operationMetrics = None THEN 0
    ELSE config_get(entry.operationMetrics[1], "num_added_rows", 0)

RECURSIVE sum_added_rows(_)
sum_added_rows(writes) ==
    IF writes = <<>> THEN 0
    ELSE num_added_rows_of(writes[1]) + sum_added_rows(Tail(writes))

\* line 488: sum(timestamps[i] - timestamps[i+1] for i in range(len - 1))
RECURSIVE sum_time_diffs(_)
sum_time_diffs(timestamps) ==
    IF Len(timestamps) < 2 THEN 0
    ELSE (timestamps[1] - timestamps[2]) + sum_time_diffs(Tail(timestamps))

\* DeltaTableInspector._analyze_write_patterns(history), lines 471-498
inspector_analyze_write_patterns(history) ==
    LET is_write(h) == h.operation \in WriteOperations
        writes == SelectSeq(history, is_write)
        timestamps == [i \in DOMAIN writes |-> writes[i].timestamp]
        small ==
            \* avg_rows = sum / len(writes) < 1000
            IF Len(writes) > 10 /\ sum_added_rows(writes) < 1000 * Len(writes)
            THEN <<"Small frequent writes detected (avg < 1000 rows)">>
            ELSE <<>>
        cadence ==
            IF Len(timestamps) > 1
            THEN LET total == sum_time_diffs(timestamps) * SECONDS_PER_HALF_DAY
                     n == Len(timestamps) - 1
                 IN  \* avg_time_diff = total / n, compared with 300 and 86400 seconds
                     IF total < 300 * n
                     THEN <<"Streaming pattern: writes every few minutes">>
                     ELSE IF total > 86400 * n
                     THEN <<"Batch pattern: writes once per day or less">>
                     ELSE <<>>
            ELSE <<>>
    IN  IF writes = <<>> THEN <<>> ELSE small \o cadence

\* get_timeline_analysis, lines 413-469, on the history the table hands out
get_timeline_analysis(t) ==
    IF t.history = <<>>
    THEN [total_operations |-> 0,
          operations_by_type |-> <<>>,
          operations_by_day |-> <<>>,
          version_creation_rate |-> [num |-> 0, den |-> 1],
          write_patterns |-> <<>>]
    ELSE [total_operations |-> Len(t.history),
          operations_by_type |-> operations_by_type_of(t.history),
          operations_by_day |-> operations_by_day_of(t.history),
          version_creation_rate |-> [num |-> Len(t.history),
                                     den |-> days_elapsed_of(t.history)],
          write_patterns |-> inspector_analyze_write_patterns(t.history),
          first_operation |-> t.history[Len(t.history)],
          latest_operation |-> t.history[1]]

(***************************************************************************)
(* The command line (cli.py), the Textual application (tui_app.py) and the *)
(* prompt-driven pager (history_viewer.py).  A table path is the sequence  *)
(* of its characters.  The calls that read the table are counted by name.  *)
(***************************************************************************)
PAGE_SIZE == 10

\* str.startswith
startswith(s, prefix) ==
    Len(s) >= Len(prefix) /\ SubSeq(s, 1, Len(prefix)) = prefix

AbfssScheme == <<"a", "b", "f", "s", "s", ":", "/", "/">>
AzScheme == <<"a", "z", ":", "/", "/">>

\* mutant: only abfss:// paths skip the local check
validates_locally_but_abfss(table_path) ==
    ~startswith(table_path, AbfssScheme)

\* cli.py 57: only local paths are validated
validates_locally(table_path) ==
    ~(startswith(table_path, AbfssScheme) \/ startswith(table_path, AzScheme))

\* no command has been started
NoRun ==
    [table_path |-> <<>>, path_exists |-> FALSE, history |-> <<>>,
     fault |-> None, propagates |-> FALSE]

\* main has not run yet; run_tui holds the argument of every run_tui call
NotStarted ==
    [phase |-> "not_started", run_tui |-> <<>>, printed |-> <<>>, exit_code |-> None]

\* cli.py 59-61
main_path_missing(c) ==
    [c EXCEPT !.phase = "exited", !.printed = Append(@, "Path does not exist"),
              !.exit_code = Some(1)]

\* cli.py 65, run_tui returned: the command ends normally
main_after_return(c) ==
    [c EXCEPT !.phase = "exited", !.exit_code = Some(0)]

\* cli.py 67-69
main_after_interrupt(c) ==
    [c EXCEPT !.phase = "exited", !.printed = Append(@, "Exited Deltective"),
              !.exit_code = Some(0)]

\* cli.py 70-72
main_after_exception(c) ==
    [c EXCEPT !.phase = "exited", !.printed = Append(@, "Error"),
              !.exit_code = Some(1)]

\* the calls on the table made so far
NoReads == [DeltaTable |-> 0, get_add_actions |-> 0, history |-> 0, metadata |-> 0]

\* DeltaInspectorApp.compose: DeltaTableInspector(...) at 654, get_statistics()
\* at 655 (inspector.py 173 and 213), get_history() at 656 (inspector.py 300)
ComposeCalls == <<"DeltaTable", "get_add_actions", "history", "history">>
\* ConfigurationTab.on_mount: a new inspector, get_configuration (inspector.py 311)
ConfigurationCalls == <<"DeltaTable", "metadata">>
\* TimelineTab.on_mount: a new inspector, get_timeline_analysis (inspector.py 419)
TimelineCalls == <<"DeltaTable", "history">>

\* the reads counted after the first n calls of a handler
RECURSIVE issue(_, _, _)
issue(reads, calls, n) ==
    IF n = 0 THEN reads
    ELSE [issue(reads, calls, n - 1) EXCEPT ![calls[n]] = @ + 1]

\* fault = Some(<<handler, n>>): the n-th call of that handler raises
raises(fault, handler) == fault # None /\ fault[1][1] = handler
calls_made(fault, handler, calls) ==
    IF raises(fault, handler) THEN fault[1][2] ELSE Len(calls)

Tabs == <<"overview-tab", "history-tab", "insights-tab", "config-tab", "timeline-tab">>

\* HistoryTab.__init__, tui_app.py 114-119
HistoryTab(history) ==
    [history |-> history, page |-> 0, page_size |-> PAGE_SIZE, reverse |-> FALSE]

\* tui_app.py 140 and 211
total_pages_of(tab) ==
    Max({1, (Len(tab.history) - 1) \div tab.page_size + 1})

\* mutant: the last page is not looked at
next_page_unbounded(tab) ==
    [tab EXCEPT !.page = @ + 1]

\* HistoryTab.next_page, tui_app.py 209-214
next_page(tab) ==
    IF tab.page < total_pages_of(tab) - 1 THEN [tab EXCEPT !.page = @ + 1] ELSE tab

\* HistoryTab.prev_page, tui_app.py 216-220
prev_page(tab) ==
    IF tab.page > 0 THEN [tab EXCEPT !.page = @ - 1] ELSE tab

\* HistoryTab.toggle_reverse, tui_app.py 222-226
toggle_reverse(tab) ==
    [tab EXCEPT !.reverse = ~@, !.page = 0]

NoApp ==
    [phase |-> "none", table_path |-> <<>>, active |-> "", history_tab |-> None,
     content |-> {}, reads |-> NoReads, failed_at |-> None]

\* DeltaInspectorApp.__init__, tui_app.py 641-646
DeltaInspectorApp(table_path) ==
    [NoApp EXCEPT !.phase = "constructed", !.table_path = table_path]

\* an exception leaves a handler: the application stops
fail(a, handler, reads) ==
    [a EXCEPT !.phase = "exited", !.failed_at = Some(handler), !.reads = reads]

\* DeltaInspectorApp.compose, tui_app.py 648-669
compose(a, e) ==
    LET reads == issue(a.reads, ComposeCalls, calls_made(e.fault, "compose", ComposeCalls))
    IN  IF raises(e.fault, "compose") THEN fail(a, "compose", reads)
        ELSE [a EXCEPT !.phase = "running", !.reads = reads,
                       !.active = Tabs[1],
                       !.history_tab = Some(HistoryTab(e.history))]

\* the handler that fills the content of a tab: OverviewTab.compose (22-28),
\* HistoryTab.on_mount (129-131), InsightsTab.on_mount (243-247),
\* ConfigurationTab.on_mount (339-343), TimelineTab.on_mount (492-496)
on_mount(a, e, tab, calls) ==
    LET reads == issue(a.reads, calls, calls_made(e.fault, tab, calls))
    IN  IF raises(e.fault, tab) THEN fail(a, tab, reads)
        ELSE [a EXCEPT !.reads = reads, !.content = @ \cup {tab}]

\* mutant: the active tab is not looked at
action_next_page_any_tab(a) ==
    [a EXCEPT !.history_tab = Some(next_page(@[1]))]

\* tui_app.py 671-677
action_next_page(a) ==
    IF a.active = "history-tab"
    THEN [a EXCEPT !.history_tab = Some(next_page(@[1]))] ELSE a

\* tui_app.py 679-685
action_prev_page(a) ==
    IF a.active = "history-tab"
    THEN [a EXCEPT !.history_tab = Some(prev_page(@[1]))] ELSE a

\* tui_app.py 687-693
action_reverse(a) ==
    IF a.active = "history-tab"
    THEN [a EXCEPT !.history_tab = Some(toggle_reverse(@[1]))] ELSE a

\* tabs.index(active) if active in tabs else 0, tui_app.py 699 and 707
current_index_of(active) ==
    IF \E i \in DOMAIN Tabs : Tabs[i] = active
    THEN (CHOOSE i \in DOMAIN Tabs : Tabs[i] = active) - 1
    ELSE 0

\* tui_app.py 695-701
action_next_tab(a) ==
    [a EXCEPT !.active = Tabs[((current_index_of(a.active) + 1) % Len(Tabs)) + 1]]

\* tui_app.py 703-709
action_prev_tab(a) ==
    [a EXCEPT !.active = Tabs[((current_index_of(a.active) - 1) % Len(Tabs)) + 1]]

\* display_history_interactive has not been called
NoViewer ==
    [phase |-> "none", history |-> <<>>, page_size |-> 0, current_page |-> 0,
     total_pages |-> 0, reverse_mode |-> FALSE]

\* history_viewer.py 105-111: an empty history returns at once
display_history_interactive(history, page_size) ==
    IF history = <<>>
    THEN [NoViewer EXCEPT !.phase = "returned", !.page_size = page_size]
    ELSE [phase |-> "prompt", history |-> history, page_size |-> page_size,
          current_page |-> 0,
          total_pages |-> (Len(history) - 1) \div page_size + 1,
          reverse_mode |-> FALSE]

\* the answers Prompt.ask lets through, history_viewer.py 151
Commands == {"n", "p", "r", "q", "next", "prev", "reverse", "quit"}

\* history_viewer.py 157-173
handle_command(v, command) ==
    IF command \in {"q", "quit"} THEN [v EXCEPT !.phase = "returned"]
    ELSE IF command \in {"n", "next"}
         THEN IF v.current_page < v.total_pages - 1
              THEN [v EXCEPT !.current_page = @ + 1] ELSE v
    ELSE IF command \in {"p", "prev"}
         THEN IF v.current_page > 0
              THEN [v EXCEPT !.current_page = @ - 1] ELSE v
    ELSE IF command \in {"r", "reverse"}
         THEN [v EXCEPT !.reverse_mode = ~@, !.current_page = 0]
    ELSE v

(***************************************************************************)
(* The state machine: one DeltaTableAnalyzer and the analyze() calls on it.*)
(***************************************************************************)
\* DeltaTableAnalyzer.__init__, insights.py 32-35
Init ==
    /\ stats \in StatsInputs
    /\ cv_rounds_up \in IF skew_tie(stats.files) THEN cv_tie_outcomes(stats.files)
                                                      ELSE {FALSE}
    /\ heap = << <<>> >>
    /\ insights = 1
    /\ returned = <<>>
    /\ table = NoTable
    /\ lists = <<>>
    /\ observed = NothingObserved
    /\ env = NoRun
    /\ cli = NotStarted
    /\ app = NoApp
    /\ viewer = NoViewer

\* one call of analyze(); datetime.now() does not run backwards between calls
Analyze ==
    /\ Len(returned) < MaxCalls
    /\ \E now \in Times :
        /\ \A k \in DOMAIN returned : returned[k].at <= now
        /\ \E a \in {analyze(heap, insights, stats, now, cv_rounds_up)} :
               /\ heap' = a.heap
               /\ insights' = a.ref
               /\ returned' = Append(returned, [ref |-> a.ref, at |-> now,
                                             after_rules |-> a.after_rules,
                                             value |-> a.heap[a.ref]])
    /\ UNCHANGED <<stats, cv_rounds_up, table, lists, observed, env, cli, app, viewer>>

Next == Analyze

Spec == Init /\ [][Next]_vars

(***************************************************************************)
(* The tables handed to the inspector, and the inspector's state machine.  *)
(***************************************************************************)
\* the commit timestamp of version v, in half days: commits every 12 hours,
\* commits every 2 days, a clock running backwards, commits within minutes
ClockKinds == {"steady", "slow", "backwards", "burst"}
CommitTime(v, clock) ==
    CASE clock = "steady" -> 10 + v
      [] clock = "slow" -> 10 + 4 * v
      [] clock = "backwards" -> 20 - v
      [] clock = "burst" -> 10

\* <<operation, whether the entry carries operationParameters/operationMetrics>>
EntryKinds == { <<"WRITE", TRUE>>, <<"VACUUM", TRUE>>, <<"VACUUM END", FALSE>> }

CommitEntry(v, kind, clock) ==
    [version |-> v,
     timestamp |-> CommitTime(v, clock),
     operation |-> kind[1],
     operationParameters |-> IF kind[2] THEN Some(<<"mode", kind[1], v>>) ELSE None,
     operationMetrics |-> IF kind[2] THEN Some(<< <<"num_added_files", v>> >>) ELSE None]

\* the versions of V, highest first
RECURSIVE Descending(_)
Descending(V) ==
    IF V = {} THEN <<>> ELSE <<Max(V)>> \o Descending(V \ {Max(V)})

\* what history() hands out: entries of distinct versions, newest first; the
\* retained versions need not be contiguous nor start at 0
Histories ==
    {[i \in DOMAIN d[1] |-> CommitEntry(d[1][i], d[2][d[1][i]], d[3])] :
        d \in UNION {{<<Descending(V), kinds, clock>> :
                         kinds \in [V -> EntryKinds], clock \in ClockKinds} :
                     V \in {W \in SUBSET (0..MaxHistory) : Cardinality(W) <= MaxHistory}}}

\* histories of more than 10 writes: 11 WRITE entries of versions 10..0, each
\* reporting the same num_added_rows, or none
AddedRowsChoices == {None, Some(999), Some(1000)}
LongHistories ==
    {[i \in 1..11 |->
        [CommitEntry(11 - i, <<"WRITE", TRUE>>, clock)
            EXCEPT !.operationMetrics =
                IF rows = None THEN Some(<< <<"num_added_files", 1>> >>)
                ELSE Some(<< <<"num_added_rows", rows[1]>> >>)]] :
        rows \in AddedRowsChoices, clock \in ClockKinds}

\* a row of get_add_actions(flatten=True); size_bytes and the partition.* values
\* may be null
AddAction(path, size_bytes, partition) ==
    [path |-> path, size_bytes |-> size_bytes, partition |-> partition]

SizeChoices == {None, Some(0), Some(3)}
PartitionValueChoices == {None, Some(1), Some(2)}

\* <<rows, partition columns>> of an unpartitioned table and of a table
\* partitioned by country
AddActionInputs ==
    UNION {{<<[i \in 1..n |-> AddAction(i, sizes[i], <<>>)], <<>> >> :
               sizes \in [1..n -> SizeChoices]} : n \in 0..MaxAdds}
    \cup
    UNION {{<<[i \in 1..n |-> AddAction(i, sizes[i], << <<"country", values[i]>> >>)],
              <<"country">> >> :
               sizes \in [1..n -> SizeChoices],
               values \in [1..n -> PartitionValueChoices]} : n \in 1..MaxAdds}

\* the values tried for the two numeric table properties: every text of up to
\* MaxText characters over TextAlphabet, and some values seen in tables
\* ("168", "1_0", "48 hours", "hours", "interval 7 days")
TextAlphabet == {"7", " ", "-", "_", "x"}
Texts ==
    UNION {[1..n -> TextAlphabet] : n \in 0..MaxText}
    \cup { <<"1", "6", "8">>, <<"1", "_", "0">>,
           <<"4", "8", " ", "h", "o", "u", "r", "s">>,
           <<"h", "o", "u", "r", "s">>,
           <<"i", "n", "t", "e", "r", "v", "a", "l", " ", "7", " ", "d", "a", "y", "s">> }

\* <<the other table properties, protocol.writer_features>>
OtherProperties ==
    { << <<>>, None >>,
      << << <<"delta.enableChangeDataFeed", "true">>,
            <<"delta.constraints.positive_id", "id > 0">> >>,
         Some({"deletionVectors"}) >>,
      << << <<"delta.autoOptimize.autoCompact", "true">>,
            <<"delta.columnMapping.mode", "name">>,
            <<"clustering", "id">> >>,
         Some({"timestampNtz", "appendOnly"}) >> }

\* <<table properties, protocol.writer_features>>: at most one numeric property set
ConfigurationInputs ==
    OtherProperties
    \cup {<<p[1] \o << <<"delta.dataSkippingNumIndexedCols", text>> >>, p[2]>> :
              p \in OtherProperties, text \in Texts}
    \cup {<<p[1] \o << <<"delta.deletedFileRetentionDuration", text>> >>, p[2]>> :
              p \in OtherProperties, text \in Texts}

Tables ==
    {[add_actions |-> a[1], partition_columns |-> a[2],
      history |-> << CommitEntry(0, <<"WRITE", TRUE>>, "steady") >>,
      configuration |-> <<>>, writer_features |-> None] : a \in AddActionInputs}
    \cup
    {[add_actions |-> << AddAction(1, Some(3), <<>>) >>, partition_columns |-> <<>>,
      history |-> h, configuration |-> <<>>, writer_features |-> None] :
        h \in Histories \cup LongHistories}
    \cup
    {[add_actions |-> << AddAction(1, Some(3), <<>>) >>, partition_columns |-> <<>>,
      history |-> << CommitEntry(0, <<"WRITE", TRUE>>, "steady") >>,
      configuration |-> c[1], writer_features |-> c[2]] : c \in ConfigurationInputs}

\* DeltaTableInspector.__init__, inspector.py 56-75: the table is loaded
InspectorInit ==
    /\ table \in Tables
    /\ lists = <<>>
    /\ observed = NothingObserved
    /\ stats = TableStatistics(<<>>, <<>>, 0, None)
    /\ cv_rounds_up = FALSE
    /\ heap = << <<>> >>
    /\ insights = 1
    /\ returned = <<>>
    /\ env = NoRun
    /\ cli = NotStarted
    /\ app = NoApp
    /\ viewer = NoViewer

\* one call of get_statistics()
GetStatistics ==
    /\ observed.statistics = None
    /\ observed' = [observed EXCEPT !.statistics = Some(get_statistics(table))]
    /\ UNCHANGED <<stats, heap, insights, returned, cv_rounds_up, table, lists,
                   env, cli, app, viewer>>

\* self.table.history(): a list of the entries, either a new list object or
\* the one handed out before
table_history(h, obs) ==
    {[lists |-> Append(h, table.history), ref |-> Len(h) + 1]}
    \cup (IF obs.handed # None THEN {[lists |-> h, ref |-> obs.handed[1]]} ELSE {})

\* one call of get_history(reverse)
GetHistory ==
    \E reverse \in BOOLEAN :
        /\ IF reverse THEN observed.oldest_first = None
                      ELSE observed.newest_first = None
        /\ \E history \in table_history(lists, observed) :
           \E g \in {get_history(history.lists, history.ref, reverse)} :
               /\ lists' = g.lists
               /\ observed' =
                      IF reverse
                      THEN [observed EXCEPT !.oldest_first = Some(g.ref),
                                            !.handed = Some(history.ref)]
                      ELSE [observed EXCEPT !.newest_first = Some(g.ref),
                                            !.handed = Some(history.ref)]
        /\ UNCHANGED <<stats, heap, insights, returned, cv_rounds_up, table,
                       env, cli, app, viewer>>

\* one call of get_configuration()
GetConfiguration ==
    /\ observed.configuration = None
    /\ observed' = [observed EXCEPT !.configuration = Some(get_configuration(table))]
    /\ UNCHANGED <<stats, heap, insights, returned, cv_rounds_up, table, lists,
                   env, cli, app, viewer>>

\* one call of get_timeline_analysis()
GetTimelineAnalysis ==
    /\ observed.timeline = None
    /\ observed' = [observed EXCEPT !.timeline = Some(get_timeline_analysis(table))]
    /\ UNCHANGED <<stats, heap, insights, returned, cv_rounds_up, table, lists,
                   env, cli, app, viewer>>

InspectorNext ==
    GetStatistics \/ GetHistory \/ GetConfiguration \/ GetTimelineAnalysis

InspectorSpec == InspectorInit /\ [][InspectorNext]_vars

(***************************************************************************)
(* The state machine of one command: cli.main, the application it starts   *)
(* and the handlers Textual calls, or one display_history_interactive call.*)
(* Textual calls the handlers of the tabs in an order of its own, and it   *)
(* decides whether an exception of a handler leaves app.run().             *)
(***************************************************************************)
\* the entries of a history of n commits, newest first, by version
history_of(n) == [i \in 1..n |-> n - i]

PagerLengths == {0, 1, PAGE_SIZE, PAGE_SIZE + 1, MaxEntries}
PageSizes == {1, 3, PAGE_SIZE}

LocalPath == <<"/", "t">>
Paths ==
    { AbfssScheme \o <<"c">>, AzScheme \o <<"c">>, LocalPath,
      <<"a", "z", ":", "/", "t">>, <<"A", "Z", ":", "/", "/", "c">> }

Faults ==
    {Some(<<"compose", n>>) : n \in DOMAIN ComposeCalls}
    \cup {Some(<<"config-tab", n>>) : n \in DOMAIN ConfigurationCalls}
    \cup {Some(<<"timeline-tab", n>>) : n \in DOMAIN TimelineCalls}

Runs ==
    {[table_path |-> p, path_exists |-> x, history |-> history_of(PAGE_SIZE + 1),
      fault |-> None, propagates |-> TRUE] : p \in Paths, x \in BOOLEAN}
    \cup
    {[table_path |-> LocalPath, path_exists |-> TRUE, history |-> history_of(1),
      fault |-> f, propagates |-> b] : f \in Faults, b \in BOOLEAN}
    \cup
    {[table_path |-> LocalPath, path_exists |-> TRUE, history |-> history_of(n),
      fault |-> None, propagates |-> TRUE] : n \in PagerLengths}

ViewerCalls ==
    {[NoViewer EXCEPT !.phase = "called", !.history = history_of(n), !.page_size = s] :
        n \in PagerLengths, s \in PageSizes}

TuiInit ==
    /\ \/ env \in Runs /\ viewer = NoViewer
       \/ env = NoRun /\ viewer \in ViewerCalls
    /\ cli = NotStarted
    /\ app = NoApp
    /\ stats = TableStatistics(<<>>, <<>>, 0, None)
    /\ cv_rounds_up = FALSE
    /\ heap = << <<>> >>
    /\ insights = 1
    /\ returned = <<>>
    /\ table = NoTable
    /\ lists = <<>>
    /\ observed = NothingObserved

\* cli.py 56-65: main, up to the call of run_tui (tui_app.py 712-715)
Main ==
    /\ env # NoRun
    /\ cli.phase = "not_started"
    /\ IF validates_locally(env.table_path) /\ ~env.path_exists
       THEN /\ cli' = main_path_missing(cli)
            /\ UNCHANGED app
       ELSE /\ cli' = [cli EXCEPT !.phase = "in_run_tui",
                                  !.run_tui = Append(@, env.table_path)]
            /\ app' = DeltaInspectorApp(env.table_path)
    /\ UNCHANGED <<stats, heap, insights, returned, cv_rounds_up, table, lists,
                   observed, env, viewer>>

\* what main does once the application has stopped on an exception
after_failure(c, e) ==
    IF e.propagates THEN main_after_exception(c) ELSE main_after_return(c)

Compose ==
    /\ app.phase = "constructed"
    /\ app' = compose(app, env)
    /\ cli' = IF app'.phase = "exited" THEN after_failure(cli, env) ELSE cli
    /\ UNCHANGED <<stats, heap, insights, returned, cv_rounds_up, table, lists,
                   observed, env, viewer>>

\* the handler of one tab runs, once
Handler(tab, calls) ==
    /\ app.phase = "running"
    /\ tab \notin app.content
    /\ app' = on_mount(app, env, tab, calls)
    /\ cli' = IF app'.phase = "exited" THEN after_failure(cli, env) ELSE cli
    /\ UNCHANGED <<stats, heap, insights, returned, cv_rounds_up, table, lists,
                   observed, env, viewer>>

OverviewTabCompose == Handler("overview-tab", <<>>)
HistoryTabOnMount == Handler("history-tab", <<>>)
InsightsTabOnMount == Handler("insights-tab", <<>>)
ConfigurationTabOnMount == Handler("config-tab", ConfigurationCalls)
TimelineTabOnMount == Handler("timeline-tab", TimelineCalls)

\* a key binding of the running application, tui_app.py 632-639
Key(after) ==
    /\ app.phase = "running"
    /\ app' = after
    /\ UNCHANGED <<stats, heap, insights, returned, cv_rounds_up, table, lists,
                   observed, env, cli, viewer>>

ActionNextPage == Key(action_next_page(app))
ActionPrevPage == Key(action_prev_page(app))
ActionReverse == Key(action_reverse(app))
ActionNextTab == Key(action_next_tab(app))
ActionPrevTab == Key(action_prev_tab(app))

\* q: the application stops, run_tui returns and main ends
ActionQuit ==
    /\ app.phase = "running"
    /\ app' = [app EXCEPT !.phase = "exited"]
    /\ cli' = main_after_return(cli)
    /\ UNCHANGED <<stats, heap, insights, returned, cv_rounds_up, table, lists,
                   observed, env, viewer>>

\* KeyboardInterrupt leaves run_tui, cli.py 67-69
KeyboardInterrupt ==
    /\ cli.phase = "in_run_tui"
    /\ app' = [app EXCEPT !.phase = "exited"]
    /\ cli' = main_after_interrupt(cli)
    /\ UNCHANGED <<stats, heap, insights, returned, cv_rounds_up, table, lists,
                   observed, env, viewer>>

\* the call of display_history_interactive, up to the first prompt
DisplayHistoryInteractive ==
    /\ viewer.phase = "called"
    /\ viewer' = display_history_interactive(viewer.history, viewer.page_size)
    /\ UNCHANGED <<stats, heap, insights, returned, cv_rounds_up, table, lists,
                   observed, env, cli, app>>

\* one answer to the prompt
ViewerCommand ==
    /\ viewer.phase = "prompt"
    /\ \E command \in Commands : viewer' = handle_command(viewer, command)
    /\ UNCHANGED <<stats, heap, insights, returned, cv_rounds_up, table, lists,
                   observed, env, cli, app>>

TuiNext ==
    \/ Main \/ Compose
    \/ OverviewTabCompose \/ HistoryTabOnMount \/ InsightsTabOnMount
    \/ ConfigurationTabOnMount \/ TimelineTabOnMount
    \/ ActionNextPage \/ ActionPrevPage \/ ActionReverse
    \/ ActionNextTab \/ ActionPrevTab
    \/ ActionQuit \/ KeyboardInterrupt
    \/ DisplayHistoryInteractive \/ ViewerCommand

TuiSpec == TuiInit /\ [][TuiNext]_vars

(***************************************************************************)
(* Properties of analyze().  Result(k) is the list the k-th call returned, *)
(* Clock(k) the clock reading of that call.                                *)
(***************************************************************************)
Calls == DOMAIN returned
Result(k) == returned[k].value
Clock(k) == returned[k].at
\* what the rules, and the rules and the fallback, appended in call k, before the sort
Produced(k) == returned[k].after_rules
Appended(k) == with_fallback(Produced(k))

Has(list, title) == \E i \in DOMAIN list : list[i].title = title
Count(list, title) == Cardinality({i \in DOMAIN list : list[i].title = title})
WithSeverity(list, severity) ==
    LET Test(x) == x.severity = severity IN SelectSeq(list, Test)
Severities == {"critical", "warning", "info", "good"}
Rank == [critical |-> 0, warning |-> 1, info |-> 2, good |-> 3]
NumSmall == Cardinality({i \in DOMAIN stats.files : stats.files[i].size_bytes < 10})
NumFiles == Len(stats.files)
\* small files are more than 50% / more than 20% / at least 20% / at most 50% of the files
MoreThanHalfSmall == 2 * NumSmall > NumFiles
MoreThanFifthSmall == 5 * NumSmall > NumFiles
AtLeastFifthSmall == 5 * NumSmall >= NumFiles
AtMostHalfSmall == 2 * NumSmall <= NumFiles

Ordered(list) ==
    \A i \in 1..(Len(list) - 1) : Rank[list[i].severity] <= Rank[list[i + 1].severity]

\* C1: every list analyze() returns is ordered by non-decreasing severity rank
\* (critical 0, warning 1, info 2, good 3).
C1_SortedBySeverity ==
    \A k \in Calls : Ordered(Result(k))

\* a returned list of three or more insights that the rules appended out of order
C1_Witness ==
    \E k \in Calls :
        /\ Len(Result(k)) >= 3
        /\ \E pre \in {Appended(k)} : ~Ordered(pre)

\* C2: the result holds the good insight "Table Configuration Looks Good" exactly
\* once when no rule produced a critical or warning insight, holds no good insight
\* otherwise, and is never empty.
C2_GoodFallback ==
    \A k \in Calls :
        \E produced \in {Produced(k)} :
            LET issues == \E i \in DOMAIN produced :
                              produced[i].severity \in {"critical", "warning"}
                goods == {i \in DOMAIN Result(k) : Result(k)[i].severity = "good"}
            IN  /\ Result(k) # <<>>
                /\ ~issues => /\ Cardinality(goods) = 1
                              /\ Count(Result(k), "Table Configuration Looks Good") = 1
                              /\ \A i \in goods :
                                     Result(k)[i].title = "Table Configuration Looks Good"
                /\ issues => goods = {}

\* a result where the fallback stands next to info insights, and nothing else
C2_Witness ==
    \E k \in Calls :
        /\ Has(Result(k), "Table Configuration Looks Good")
        /\ Has(Result(k), "Table Not Partitioned")
        /\ Has(Result(k), "Many Small Writes Detected")
        /\ Len(Result(k)) = 3

\* the rule (1 file sizes .. 7 write pattern, 8 fallback) an insight title comes from
RuleOf(title) ==
    CASE title \in {"Small Files Problem Detected", "Some Small Files Detected",
                    "Suboptimal Average File Size"} -> 1
      [] title = "High File Count" -> 2
      [] title \in {"Table Has Never Been Vacuumed", "Vacuum Overdue"} -> 3
      [] title \in {"Table Not Partitioned", "Over-Partitioned Table",
                    "Under-Partitioned Table"} -> 4
      [] title = "Consider Regular Optimization" -> 5
      [] title = "Data Skew Detected" -> 6
      [] title = "Many Small Writes Detected" -> 7
      [] title = "Table Configuration Looks Good" -> 8

\* C3: the result is a stable sort of what the rules appended: it has the same
\* insights, none dropped or duplicated, and the insights of one severity stand
\* in rule-evaluation order.
C3_StablePermutation ==
    \A k \in Calls :
        \E pre \in {Appended(k)} :
            /\ Len(Result(k)) = Len(pre)
            /\ \A i \in DOMAIN Result(k) : Result(k)[i].severity \in Severities
            /\ \A sev \in Severities :
                   WithSeverity(Result(k), sev) = WithSeverity(pre, sev)
            /\ \A i, j \in DOMAIN Result(k) :
                   (i < j /\ Result(k)[i].severity = Result(k)[j].severity)
                       => RuleOf(Result(k)[i].title) <= RuleOf(Result(k)[j].title)

\* a result the sort reordered, with warnings of three different rules in it
C3_Witness ==
    \E k \in Calls :
        /\ Result(k) # Appended(k)
        /\ Cardinality({RuleOf(Result(k)[i].title) :
               i \in {j \in DOMAIN Result(k) : Result(k)[j].severity = "warning"}}) >= 3

\* the whole days since last_vacuum at the clock reading of call k
DaysAt(k) == (Clock(k) - stats.last_vacuum[1]) \div HALF_DAYS_PER_DAY

\* C4 as stated: any two invocations on equal stats return equal sequences.
C4_Original ==
    \A j, k \in Calls : Result(j) = Result(k)

\* C4 amended: two invocations on equal stats return equal sequences when
\* last_vacuum is absent or both read the same number of whole days since it.
C4_DeterministicGivenClock ==
    \A j, k \in Calls :
        (stats.last_vacuum = None \/ DaysAt(j) = DaysAt(k)) => Result(j) = Result(k)

\* two calls at different clock readings, last_vacuum present, the same day count
C4_Witness ==
    \E j, k \in Calls :
        /\ j < k
        /\ Clock(j) # Clock(k)
        /\ stats.last_vacuum # None
        /\ DaysAt(j) = DaysAt(k)
        /\ Len(Result(k)) >= 2

\* C5: for a non-empty file list the critical small-files insight is emitted
\* exactly when more than 50% of the files are smaller than 10 MB, and at most once.
C5_SmallFilesCritical ==
    stats.files # <<>> =>
        \E expected \in {IF MoreThanHalfSmall THEN 1 ELSE 0} :
            \A k \in Calls :
                /\ Count(Result(k), "Small Files Problem Detected") = expected
                /\ \A i \in DOMAIN Result(k) :
                       Result(k)[i].title = "Small Files Problem Detected"
                           <=> Result(k)[i].severity = "critical"

\* the critical insight for a list in which some but not all files are small
C5_Witness ==
    /\ 0 < NumSmall /\ NumSmall < NumFiles
    /\ \E k \in Calls : Has(Result(k), "Small Files Problem Detected")

\* C6 as stated: the warning "Some Small Files Detected" is emitted, and the
\* critical insight is not, exactly when 20% <= share of small files <= 50%.
C6_Original ==
    stats.files # <<>> =>
        \E in_range \in {AtLeastFifthSmall /\ AtMostHalfSmall} :
            \A k \in Calls :
                /\ in_range => /\ Has(Result(k), "Some Small Files Detected")
                               /\ ~Has(Result(k), "Small Files Problem Detected")
                /\ ~in_range => ~Has(Result(k), "Some Small Files Detected")

\* C6 amended: the warning "Some Small Files Detected" is emitted, and the
\* critical insight is not, exactly when 20% < share of small files <= 50%.
C6_SmallFilesWarning ==
    stats.files # <<>> =>
        \E in_range \in {MoreThanFifthSmall /\ AtMostHalfSmall} :
            \A k \in Calls :
                /\ in_range => /\ Count(Result(k), "Some Small Files Detected") = 1
                               /\ ~Has(Result(k), "Small Files Problem Detected")
                /\ ~in_range => ~Has(Result(k), "Some Small Files Detected")

\* the warning at a share of exactly 50%
C6_Witness ==
    /\ 2 * NumSmall = NumFiles
    /\ \E k \in Calls : Has(Result(k), "Some Small Files Detected")

\* C7: for a non-empty file list the warning "Suboptimal Average File Size" is
\* emitted exactly when the mean file size is below 64 MB, whether or not a
\* small-files insight is emitted too.
C7_SuboptimalAverage ==
    stats.files # <<>> =>
        \E expected \in {IF SumSizes(stats.files, 1, NumFiles) < 64 * NumFiles
                          THEN 1 ELSE 0} :
            \A k \in Calls :
                Count(Result(k), "Suboptimal Average File Size") = expected

\* the warning together with the critical small-files insight
C7_Witness ==
    \E k \in Calls :
        /\ Has(Result(k), "Suboptimal Average File Size")
        /\ Has(Result(k), "Small Files Problem Detected")

\* C8: the warning "High File Count" is emitted exactly when num_files > 1000.
C8_HighFileCount ==
    \A k \in Calls :
        Count(Result(k), "High File Count") = (IF stats.num_files > 1000 THEN 1 ELSE 0)

\* a table of 1500 active files gets the warning
C8_Witness ==
    \E k \in Calls :
        /\ stats.num_files = 1500
        /\ Len(stats.files) = 1500
        /\ Has(Result(k), "High File Count")

\* C9: the vacuum rule emits at most one insight: "Table Has Never Been Vacuumed"
\* exactly when last_vacuum is absent and total_versions > 10, "Vacuum Overdue"
\* exactly when last_vacuum is present and more than 28 whole days have passed
\* since it (the clock reads at least 29 days after last_vacuum).
C9_VacuumRule ==
    \A k \in Calls :
        /\ Count(Result(k), "Table Has Never Been Vacuumed")
               + Count(Result(k), "Vacuum Overdue") <= 1
        /\ Has(Result(k), "Table Has Never Been Vacuumed")
               <=> (stats.last_vacuum = <<>> /\ stats.total_versions > 10)
        /\ Has(Result(k), "Vacuum Overdue")
               <=> (stats.last_vacuum # <<>>
                    /\ Clock(k) - stats.last_vacuum[1] >= 29 * HALF_DAYS_PER_DAY)

\* a history of 11 commits without a VACUUM gets the never-vacuumed warning
C9_Witness ==
    \E k \in Calls :
        /\ stats.total_versions = 11
        /\ stats.last_vacuum = <<>>
        /\ Has(Result(k), "Table Has Never Been Vacuumed")

\* the partition-value mappings of the files, as sets of <<column, value>> pairs
PartitionGroups ==
    {{stats.files[i].partition_values[j] : j \in DOMAIN stats.files[i].partition_values} :
        i \in DOMAIN stats.files}

\* C10: the partitioning rule emits at most one insight.  Without partition
\* columns: "Table Not Partitioned" exactly when the total size exceeds 10 GiB.
\* With partition columns and files: "Over-Partitioned" exactly when the number
\* of distinct partition-value mappings is above 1000 and num_files is below 5
\* per mapping, else "Under-Partitioned" exactly when there are fewer than 10
\* mappings and more than 100 files per mapping.
C10_PartitioningRule ==
    \E groups \in {Cardinality(PartitionGroups)} :
        \A k \in Calls :
            LET over == groups > 1000 /\ stats.num_files < 5 * groups
                under == ~over /\ groups < 10 /\ stats.num_files > 100 * groups
            IN  /\ Count(Result(k), "Table Not Partitioned")
                       + Count(Result(k), "Over-Partitioned Table")
                       + Count(Result(k), "Under-Partitioned Table") <= 1
                /\ stats.partition_columns = <<>> =>
                       /\ Has(Result(k), "Table Not Partitioned")
                              <=> stats.total_size_bytes > 10 * 1024
                       /\ ~Has(Result(k), "Over-Partitioned Table")
                       /\ ~Has(Result(k), "Under-Partitioned Table")
                /\ (stats.partition_columns # <<>> /\ stats.files # <<>>) =>
                       /\ Has(Result(k), "Over-Partitioned Table") <=> over
                       /\ Has(Result(k), "Under-Partitioned Table") <=> under
                       /\ ~Has(Result(k), "Table Not Partitioned")

\* 1500 files over 3 partitions of 500: no "Over-Partitioned"
C10_Witness ==
    \E k \in Calls :
        /\ stats.num_files = 1500
        /\ Cardinality(PartitionGroups) = 3
        /\ stats.partition_columns # <<>>
        /\ ~Has(Result(k), "Over-Partitioned Table")
        /\ Has(Result(k), "Under-Partitioned Table")

\* C11: with at least 2 files the result holds "Data Skew Detected" exactly when
\* 4*(n*sum(s^2) - (sum s)^2) > (sum s)^2 over the n sizes; with fewer than 2
\* files, or when all sizes are equal, it holds no skew insight.
C11_Original ==
    \E n \in {Len(stats.files)} :
    \E S \in {SumSizes(stats.files, 1, n)} :
    \E Q \in {SumSquares(stats.files, 1, n)} :
        \A k \in Calls :
            /\ n >= 2 => (Has(Result(k), "Data Skew Detected")
                              <=> 4 * (n * Q - S * S) > S * S)
            /\ (n < 2 \/ Cardinality(FileSizes(stats.files)) <= 1) =>
                   ~Has(Result(k), "Data Skew Detected")

\* sizes 0, 64, 64, 64, 64 MiB, whose coefficient of variation is exactly 0.5,
\* with the skew warning in the result
C11_Witness ==
    \E k \in Calls :
        /\ Len(stats.files) = 5
        /\ stats.files[1].size_bytes = 0
        /\ \A i \in 2..5 : stats.files[i].size_bytes = 64 * MiB
        /\ Has(Result(k), "Data Skew Detected")

\* C12: the result holds the info insight "Consider Regular Optimization"
\* exactly when total_versions > 20 and num_files > 1000, at most once;
\* nothing else of the statistics decides it.
C12_OptimizationRule ==
    \A k \in Calls :
        /\ Has(Result(k), "Consider Regular Optimization")
               <=> (stats.total_versions > 20 /\ stats.num_files > 1000)
        /\ Count(Result(k), "Consider Regular Optimization") <= 1
        /\ \A i \in DOMAIN Result(k) :
               Result(k)[i].title = "Consider Regular Optimization"
                   => Result(k)[i].severity = "info"

\* 1001 files after 21 versions: the insight is there
C12_Witness ==
    \E k \in Calls :
        /\ stats.total_versions = 21
        /\ stats.num_files = 1001
        /\ Has(Result(k), "Consider Regular Optimization")

\* C13: the result holds the info insight "Many Small Writes Detected" exactly
\* when total_versions > 10 and num_files < 5 * total_versions; with
\* total_versions = 0 the call returns and holds no such insight.
C13_WritePatternRule ==
    \A k \in Calls :
        /\ Has(Result(k), "Many Small Writes Detected")
               <=> (stats.total_versions > 10
                    /\ stats.num_files < 5 * stats.total_versions)
        /\ Count(Result(k), "Many Small Writes Detected") <= 1
        /\ \A i \in DOMAIN Result(k) :
               Result(k)[i].title = "Many Small Writes Detected"
                   => Result(k)[i].severity = "info"
        /\ stats.total_versions = 0 => Result(k) # <<>>

\* 100 files after 20 versions, exactly 5 files per version: no insight
C13_Witness ==
    \E k \in Calls :
        /\ stats.total_versions = 20
        /\ stats.num_files = 100
        /\ ~Has(Result(k), "Many Small Writes Detected")

\* a table without history entries and with files, analysed
C13_WitnessNoVersions ==
    \E k \in Calls :
        /\ stats.total_versions = 0
        /\ stats.num_files > 0
        /\ ~Has(Result(k), "Many Small Writes Detected")

(***************************************************************************)
(* Properties of the inspector.  Statistics is what get_statistics         *)
(* returned, NewestFirst and OldestFirst the contents of the lists that    *)
(* get_history(reverse=False) and get_history(reverse=True) returned.      *)
(***************************************************************************)
HasStatistics == observed.statistics # None
Statistics == observed.statistics[1]
HasNewestFirst == observed.newest_first # None
HasOldestFirst == observed.oldest_first # None
NewestFirst == lists[observed.newest_first[1]]
OldestFirst == lists[observed.oldest_first[1]]
\* the sum of the sizes of a file list, file by file from the left
RECURSIVE SumOfSizes(_)
SumOfSizes(files) ==
    IF files = <<>> THEN 0
    ELSE files[Len(files)].size_bytes + SumOfSizes(SubSeq(files, 1, Len(files) - 1))
VacuumEntries == {i \in DOMAIN table.history : table.history[i].operation = "VACUUM"}
VersionsOf(history) == {history[i].version : i \in DOMAIN history}

\* C14: the statistics get_statistics returns have total_size_bytes equal to the
\* sum of size_bytes over their files list; a row with a null size is a file of
\* size 0 and adds 0 to the total.
C14_TotalSizeIsSum ==
    HasStatistics =>
        /\ Statistics.total_size_bytes = SumOfSizes(Statistics.files)
        /\ Len(Statistics.files) = Len(table.add_actions)
        /\ \A i \in DOMAIN table.add_actions :
               Statistics.files[i].size_bytes =
                   IF table.add_actions[i].size_bytes = None THEN 0
                   ELSE table.add_actions[i].size_bytes[1]

\* a row with a null size next to a row of 3 MiB, total 3 MiB
C14_Witness ==
    /\ HasStatistics
    /\ \E i \in DOMAIN table.add_actions : table.add_actions[i].size_bytes = None
    /\ Statistics.total_size_bytes = 3

\* C15: the statistics get_statistics returns have num_files = len(files).
C15_NumFilesIsLen ==
    HasStatistics => Statistics.num_files = Len(Statistics.files)

\* two rows, one of them without a size
C15_Witness ==
    /\ HasStatistics
    /\ Statistics.num_files = 2
    /\ \E i \in DOMAIN table.add_actions : table.add_actions[i].size_bytes = None

\* C16: get_history(reverse=False) returns strictly decreasing versions,
\* get_history(reverse=True) strictly increasing ones, each list is the other
\* one reversed, and the reversed call leaves the list returned for
\* reverse=False as the table handed it out.
C16_HistoryOrder ==
    /\ HasNewestFirst =>
           /\ \A i, j \in DOMAIN NewestFirst :
                  i < j => NewestFirst[i].version > NewestFirst[j].version
           /\ NewestFirst = table.history
    /\ HasOldestFirst =>
           \A i, j \in DOMAIN OldestFirst :
               i < j => OldestFirst[i].version < OldestFirst[j].version
    /\ (HasNewestFirst /\ HasOldestFirst) =>
           /\ Len(OldestFirst) = Len(NewestFirst)
           /\ \A i \in DOMAIN NewestFirst :
                  OldestFirst[i] = NewestFirst[Len(NewestFirst) + 1 - i]

\* both calls made on a history of three entries, the reversed one on the very
\* list object that the plain call had returned
C16_Witness ==
    /\ HasNewestFirst
    /\ HasOldestFirst
    /\ Len(table.history) = 3
    /\ observed.handed = observed.newest_first

\* C17: last_vacuum is the timestamp of the highest-version entry whose
\* operation is VACUUM, and absent exactly when no entry has operation VACUUM.
C17_LastVacuum ==
    HasStatistics =>
        /\ Statistics.last_vacuum = None <=> VacuumEntries = {}
        /\ \A i \in VacuumEntries :
               (\A j \in VacuumEntries :
                    table.history[j].version <= table.history[i].version)
                   => Statistics.last_vacuum = Some(table.history[i].timestamp)

\* two VACUUM entries below a newer WRITE entry
C17_Witness ==
    /\ HasStatistics
    /\ Cardinality(VacuumEntries) = 2
    /\ table.history[1].operation = "WRITE"

\* a history whose only vacuum entry is a "VACUUM END": last_vacuum is absent
C17_WitnessOtherOperation ==
    /\ HasStatistics
    /\ \E i \in DOMAIN table.history : table.history[i].operation = "VACUUM END"
    /\ Statistics.last_vacuum = None

\* C18: for a non-empty history last_operation is the summary (operation,
\* timestamp, parameters, metrics) of the entry with the maximum version; for
\* an empty history it is absent.
C18_LastOperation ==
    HasStatistics =>
        /\ table.history = <<>> <=> Statistics.last_operation = None
        /\ \A i \in DOMAIN table.history :
               table.history[i].version = Max(VersionsOf(table.history))
                   => Statistics.last_operation =
                          Some([operation |-> table.history[i].operation,
                                timestamp |-> table.history[i].timestamp,
                                parameters |-> table.history[i].operationParameters,
                                metrics |-> table.history[i].operationMetrics])

\* three entries, the newest one a VACUUM
C18_Witness ==
    /\ HasStatistics
    /\ Len(table.history) = 3
    /\ Statistics.last_operation # None
    /\ Statistics.last_operation[1].operation = "VACUUM"

\* C19: oldest_version is the minimum version in the history (0 for an empty
\* history), so it is at most the version of every entry, and total_versions
\* is the number of entries.
C19_OldestVersion ==
    HasStatistics =>
        /\ table.history = <<>> => Statistics.oldest_version = 0
        /\ table.history # <<>> =>
               /\ Statistics.oldest_version \in VersionsOf(table.history)
               /\ \A i \in DOMAIN table.history :
                      Statistics.oldest_version <= table.history[i].version
        /\ Statistics.total_versions = Len(table.history)

\* a history pruned below version 1: three entries, the oldest of version 1
C19_Witness ==
    /\ HasStatistics
    /\ Statistics.total_versions = 3
    /\ Statistics.oldest_version = 1

HasConfiguration == observed.configuration # None
Configuration == observed.configuration[1]
NumIndexedColsText ==
    config_get(table.configuration, "delta.dataSkippingNumIndexedCols", <<"3", "2">>)
RetentionText ==
    config_get(table.configuration, "delta.deletedFileRetentionDuration",
               <<"1", "6", "8">>)

\* C20: get_configuration never raises; where delta.dataSkippingNumIndexedCols or
\* delta.deletedFileRetentionDuration holds a value that is no number, the
\* report has the defaults (32 indexed columns, 168 retention hours), and the
\* other fields are produced all the same.
C20_Original ==
    HasConfiguration =>
        /\ Configuration.raised = ""
        /\ int(NumIndexedColsText).raised # "" =>
               Configuration.advanced_features.data_skipping.num_indexed_cols = 32
        /\ int(strip(replace_hours(RetentionText))).raised # "" =>
               Configuration.advanced_features.vacuum_retention_hours = 168
        /\ Configuration.table_properties = table.configuration

\* the retention written as an interval, "interval 7 days": ValueError
C20_Witness ==
    /\ HasConfiguration
    /\ Len(RetentionText) = 15
    /\ Configuration.raised = "ValueError"

HasTimeline == observed.timeline # None
Timeline == observed.timeline[1]
\* the whole days between the earliest and the latest commit of the history
WholeDaysSpanned ==
    LET stamps == {table.history[i].timestamp : i \in DOMAIN table.history}
    IN  (Max(stamps) - Min(stamps)) \div 2

\* C21: get_timeline_analysis never divides by zero.  For a non-empty history
\* version_creation_rate is len(history) over max(1, whole days between the
\* earliest and the latest commit), so commits that all fall within one day
\* give a rate equal to their number; for an empty history the rate is 0 and
\* all counts are empty.
C21_VersionCreationRate ==
    HasTimeline =>
        /\ Timeline.version_creation_rate.den >= 1
        /\ table.history = <<>> =>
               /\ Timeline.version_creation_rate.num = 0
               /\ Timeline.total_operations = 0
               /\ Timeline.operations_by_type = <<>>
               /\ Timeline.operations_by_day = <<>>
               /\ Timeline.write_patterns = <<>>
        /\ table.history # <<>> =>
               /\ Timeline.version_creation_rate.num = Len(table.history)
               /\ Timeline.version_creation_rate.den =
                      (IF WholeDaysSpanned > 1 THEN WholeDaysSpanned ELSE 1)
               /\ WholeDaysSpanned = 0 =>
                      Timeline.version_creation_rate = [num |-> Len(table.history), den |-> 1]

\* two commits a day and a half apart: the rate is 2 per day
C21_Witness ==
    /\ HasTimeline
    /\ Len(table.history) = 2
    /\ Max({table.history[i].timestamp : i \in DOMAIN table.history})
           - Min({table.history[i].timestamp : i \in DOMAIN table.history}) = 3
    /\ Timeline.version_creation_rate = [num |-> 2, den |-> 1]

\* three commits over 4 days: the rate is 3/4 per day
C21_WitnessManyDays ==
    /\ HasTimeline
    /\ Timeline.version_creation_rate = [num |-> 3, den |-> 4]

\* the write entries of the history, and the sum of the elapsed times between
\* consecutive ones, in half days
WriteEntries ==
    LET is_write(h) == h.operation \in {"WRITE", "MERGE", "UPDATE", "DELETE"}
    IN  SelectSeq(table.history, is_write)
RECURSIVE SumOfGaps(_)
SumOfGaps(entries) ==
    IF Len(entries) < 2 THEN 0
    ELSE (IF entries[1].timestamp >= entries[2].timestamp
          THEN entries[1].timestamp - entries[2].timestamp
          ELSE entries[2].timestamp - entries[1].timestamp)
         + SumOfGaps(Tail(entries))
Streaming == "Streaming pattern: writes every few minutes"
Batch == "Batch pattern: writes once per day or less"
Reports(label) == \E i \in DOMAIN Timeline.write_patterns : Timeline.write_patterns[i] = label

\* C22: with at least two write entries (WRITE/MERGE/UPDATE/DELETE) the timeline
\* reports the streaming label exactly when the mean elapsed time between
\* consecutive write commits is below 5 minutes and the batch label exactly when
\* it exceeds 1 day, never both; with fewer than two write entries it reports
\* neither.  The elapsed time is non-negative whatever the order or the clock
\* skew of the entries.
C22_Original ==
    HasTimeline =>
        \E writes \in {WriteEntries} :
            LET gaps == Len(writes) - 1
                seconds == SumOfGaps(writes) * 43200
            IN  /\ Len(writes) >= 2 =>
                       /\ Reports(Streaming) <=> seconds < 300 * gaps
                       /\ Reports(Batch) <=> seconds > 86400 * gaps
                /\ Len(writes) < 2 => (~Reports(Streaming) /\ ~Reports(Batch))
                /\ ~(Reports(Streaming) /\ Reports(Batch))

\* two writes, the newer one stamped 12 hours before the older one, reported
\* as a streaming pattern
C22_Witness ==
    /\ HasTimeline
    /\ Len(table.history) = 2
    /\ Len(WriteEntries) = 2
    /\ table.history[1].timestamp + 1 = table.history[2].timestamp
    /\ Reports(Streaming)

(***************************************************************************)
(* Claims about repeated calls and about insights that imply one another.  *)
(***************************************************************************)
\* the content now held by the list object that call k returned
HeldNow(k) == heap[returned[k].ref]

\* C27: analyze() is stateless across calls on one analyzer: calls that read
\* the same clock return equal lists (nothing of an earlier call is kept),
\* every call returns a list object of its own, and the list an earlier call
\* returned still holds what it held when it was returned.
C27_StatelessAcrossCalls ==
    \A j, k \in Calls :
        /\ Clock(j) = Clock(k) => Result(k) = Result(j)
        /\ j # k => returned[j].ref # returned[k].ref
        /\ HeldNow(j) = Result(j)

\* two calls at one clock reading returned equal lists of two or more
\* insights, and the first list is still what it was
C27_Witness ==
    /\ Len(returned) = 2
    /\ Clock(1) = Clock(2)
    /\ Len(Result(1)) >= 2
    /\ Result(2) = Result(1)
    /\ returned[1].ref # returned[2].ref
    /\ HeldNow(1) = Result(1)

\* a later call at another clock reading returned a different list, and
\* the first list is still what it was
C27_WitnessOtherResult ==
    /\ Len(returned) = 2
    /\ Result(2) # Result(1)
    /\ HeldNow(1) = Result(1)

\* C30: with num_files = len(files), a result that holds "Over-Partitioned
\* Table" or "Consider Regular Optimization" also holds "High File Count",
\* and "Consider Regular Optimization" never comes with the good fallback.
C30_ImpliesHighFileCount ==
    \A k \in Calls :
        stats.num_files = Len(stats.files) =>
            /\ (Has(Result(k), "Over-Partitioned Table")
                    \/ Has(Result(k), "Consider Regular Optimization"))
                   => Has(Result(k), "High File Count")
            /\ ~(Has(Result(k), "Consider Regular Optimization")
                    /\ Has(Result(k), "Table Configuration Looks Good"))

\* an over-partitioned table with all three insights
C30_Witness ==
    \E k \in Calls :
        /\ stats.num_files = Len(stats.files)
        /\ Has(Result(k), "Over-Partitioned Table")
        /\ Has(Result(k), "Consider Regular Optimization")
        /\ Has(Result(k), "High File Count")

\* an unpartitioned table of 1001 files after 21 versions
C30_WitnessOptimizationOnly ==
    \E k \in Calls :
        /\ stats.num_files = 1001
        /\ stats.partition_columns = <<>>
        /\ ~Has(Result(k), "Over-Partitioned Table")
        /\ Has(Result(k), "Consider Regular Optimization")
        /\ Has(Result(k), "High File Count")

(***************************************************************************)
(* Claims about one run of the command and about the two history pagers.   *)
(***************************************************************************)
Failed == app.failed_at # None
Composed == app.history_tab # None
Pager == app.history_tab[1]
GivenRemote ==
    startswith(env.table_path, AbfssScheme) \/ startswith(env.table_path, AzScheme)

\* C23: one run of the application reads the commit history at most once
\* and the file manifest at most once, and once a read has failed the
\* application has stopped, so that no read is tried again.
C23_Original ==
    /\ app.reads.history <= 1
    /\ app.reads.get_add_actions <= 1
    /\ Failed => app.phase = "exited"

\* a run without failure in which all five tabs got their content
C23_Witness ==
    /\ ~Failed
    /\ app.content = {Tabs[i] : i \in DOMAIN Tabs}
    /\ app.reads.history = 3
    /\ app.reads.DeltaTable = 3
    /\ app.reads.get_add_actions = 1

\* C24: when a step of loading the table or of computing statistics,
\* configuration or timeline fails, the command ends with exactly one error
\* message and exit code 1, and no tab has been given content.
C24_Original ==
    Failed =>
        /\ cli.phase = "exited"
        /\ cli.printed = <<"Error">>
        /\ cli.exit_code = Some(1)
        /\ app.content = {}

\* loading the table fails in compose and the exception reaches main
C24_Witness ==
    /\ app.failed_at = Some("compose")
    /\ app.reads.DeltaTable = 1
    /\ app.reads.history = 0
    /\ cli.printed = <<"Error">>
    /\ cli.exit_code = Some(1)
    /\ app.content = {}

\* get_configuration fails after other tabs were given their content
C24_WitnessPartial ==
    /\ app.failed_at = Some("config-tab")
    /\ "overview-tab" \in app.content
    /\ "history-tab" \in app.content

\* C25: main calls run_tui exactly once, with the path given, when the path
\* starts with abfss:// or az:// or exists locally; for a local path that
\* does not exist it prints the 'does not exist' error, exits with code 1
\* and does not call run_tui.
C25_MainCallsRunTui ==
    /\ Len(cli.run_tui) <= 1
    /\ cli.phase # "not_started" =>
           IF GivenRemote \/ env.path_exists
           THEN cli.run_tui = <<env.table_path>>
           ELSE /\ cli.run_tui = <<>>
                /\ cli.printed = <<"Path does not exist">>
                /\ cli.exit_code = Some(1)
                /\ app = NoApp

\* an az:// path that is no local path was handed to run_tui
C25_Witness ==
    /\ startswith(env.table_path, AzScheme)
    /\ ~env.path_exists
    /\ cli.run_tui = <<env.table_path>>
    /\ app.phase = "running"

\* a local path that does not exist, written almost like an az:// path
C25_WitnessMissing ==
    /\ env.table_path = <<"a", "z", ":", "/", "t">>
    /\ ~env.path_exists
    /\ cli.phase = "exited"
    /\ cli.run_tui = <<>>
    /\ cli.exit_code = Some(1)

\* max(1, ceil(n / page_size))
TotalPages(n, page_size) ==
    LET ceil == (n + page_size - 1) \div page_size
    IN  IF ceil >= 1 THEN ceil ELSE 1

PagerInBounds ==
    /\ Composed =>
           /\ 0 <= Pager.page
           /\ Pager.page <= TotalPages(Len(Pager.history), Pager.page_size) - 1
    /\ viewer.phase = "prompt" =>
           /\ 0 <= viewer.current_page
           /\ viewer.current_page
                  <= TotalPages(Len(viewer.history), viewer.page_size) - 1

\* a step of the prompt loop that handles one of the given answers
ViewerStep(answers) ==
    /\ viewer.phase = "prompt"
    /\ \E command \in answers : viewer' = handle_command(viewer, command)

OnHistoryTab == app.phase = "running" /\ app.active = "history-tab"

PagerSteps ==
    /\ (OnHistoryTab /\ ActionNextPage
            /\ Pager.page = TotalPages(Len(Pager.history), Pager.page_size) - 1)
           => app'.history_tab = app.history_tab
    /\ (OnHistoryTab /\ ActionPrevPage /\ Pager.page = 0)
           => app'.history_tab = app.history_tab
    /\ (OnHistoryTab /\ ActionReverse)
           => /\ app'.history_tab[1].page = 0
              /\ app'.history_tab[1].reverse = ~Pager.reverse
    /\ (ViewerStep({"n", "next"})
            /\ viewer.current_page
                   = TotalPages(Len(viewer.history), viewer.page_size) - 1)
           => viewer'.current_page = viewer.current_page
    /\ (ViewerStep({"p", "prev"}) /\ viewer.current_page = 0)
           => viewer'.current_page = 0
    /\ ViewerStep({"r", "reverse"})
           => /\ viewer'.current_page = 0
              /\ viewer'.reverse_mode = ~viewer.reverse_mode

\* C28: in both history pagers the page stays within 0..total_pages - 1,
\* total_pages = max(1, ceil(len(history) / page_size)); next-page on the
\* last page and previous-page on page 0 leave the page as it is, and
\* reverse-sort sets the page to 0 and flips the sort order.
C28_PagerBounds ==
    []PagerInBounds /\ [][PagerSteps]_vars

\* the HistoryTab on the last of three pages, oldest first
C28_Witness ==
    /\ Composed
    /\ Len(Pager.history) = MaxEntries
    /\ Pager.page = TotalPages(MaxEntries, PAGE_SIZE) - 1
    /\ Pager.page > 0
    /\ Pager.reverse

\* the prompt loop on the last of several pages, oldest first
C28_WitnessViewer ==
    /\ viewer.phase = "prompt"
    /\ viewer.page_size = 3
    /\ viewer.current_page = viewer.total_pages - 1
    /\ viewer.current_page > 0
    /\ viewer.reverse_mode

PagerFrame ==
    /\ (app.phase = "running" /\ app.active # "history-tab"
            /\ (ActionNextPage \/ ActionPrevPage \/ ActionReverse))
           => app'.history_tab = app.history_tab
    /\ (ActionNextTab \/ ActionPrevTab) => app'.history_tab = app.history_tab
    /\ (app.phase = "running" /\ app'.history_tab # app.history_tab)
           => app.active = "history-tab"

\* C29: the next-page, previous-page and reverse-sort keys change the page
\* and the sort order of the HistoryTab only while the History tab is the
\* active one, and changing the tab leaves them as they are.
C29_PagerFrame ==
    [][PagerFrame]_vars

\* another tab is active and the pager is where the keys left it
C29_Witness ==
    /\ app.phase = "running"
    /\ app.active = "insights-tab"
    /\ Pager.page = 1
    /\ Pager.reverse

====
